---- MODULE Spec2Model ----
(***************************************************************************)
(* Scenario runners of the Chrome DevTools performance scripts:            *)
(*   scripts/full_scenario_perf.mjs  (prog = "full")                       *)
(*   scripts/enhanced_perf_test.mjs  (prog = "enhanced")                   *)
(* Each drives one page through nine steps, every step wrapped by          *)
(* recordTraceAround (blank reset, tracing.start, action, settle delay,    *)
(* snapshot, tracing.stop, persist), and writes an aggregate report.       *)
(* One model action is one awaited statement (or the settling of one page  *)
(* operation) of the scripts.                                              *)
(* The MCP-driven scenario (prog = "mcp", SpecMcp) and the report          *)
(* generators that read the runners' report files (SpecGen) are modelled   *)
(* in the same way, each under its own specification.                      *)
(***************************************************************************)
EXTENDS Integers, Sequences, FiniteSets, TLC

VARIABLES
  prog,         \* which script runs: "full" | "enhanced"
  optsReload,   \* opts.reload seen by recordTraceAround
  pc,           \* position of run()/main()
  step,         \* index of the current scenario step, 0 before the first
  err,          \* an exception is propagating out of run()'s try block
  exitCode,     \* -1 while the process runs, else the exit status
  browser,      \* "none" | "open" | "closed" | "closeFailed" (close threw)
  report,       \* the report array of run()/main()
  reportFile,   \* the aggregate report artifact: <<>> or <<entries>>
  rs,           \* index of the current statement of recordTraceAround
  ai,           \* index of the current instruction of the action function
  inHandler,    \* the action function executes its catch block
  clicked,      \* the action function's local (clicked/added/productLink)
  waiting,      \* labels of the operations the current await depends on
  waitMode,     \* "none" | "one" | "all" | "race"
  pending,      \* page operations issued and not settled
  timer,        \* milliseconds left of the current setTimeout
  sleeping,     \* a setTimeout is being awaited
  tracing,      \* a capture is active on the page
  tlog,         \* page.tracing calls of the whole run, in order
  log,          \* events of the current recordTraceAround call, in order
  sinceAction,  \* milliseconds elapsed since the action function completed
  blankRes,     \* about:blank reset of this call: "none"|"issued"|"ok"|"failed"
  loc,          \* document shown by the page: "blank" | "site"
  strat,        \* strategies issued by the current action function
  acc,          \* steps whose observations the document's window.__LCP,
                \* __CLS, __INP and __longTasks hold
  snap,         \* the accumulators as sampled by getPerformanceMetrics
  thrown,       \* what made run()/main() fail: "none" or the failing statement
  gen,          \* which report generator runs, "none" in the runners
  gpc,          \* position of the generator
  gn,           \* number of entries of the report file it loaded
  gi,           \* index of the entry it is about to process
  cur,          \* the artifact of the entry it processed last
  sec,          \* what it rendered for that entry
  out,          \* the kinds of the sections emitted so far, in order
  clsValue,     \* the CLS observer's closure variable clsValue
  winCLS,       \* window.__CLS
  shifts,       \* layout-shift entries delivered to the observer so far
  page,         \* perf-test: "none" | "open" | "closed"
  navigationFailed, \* perf-test: let navigationFailed
  resources,    \* perf-test: performanceData.resources
  byType,       \* perf-test: const byType = {}
  protocolStats,    \* perf-test: const protocolStats = {}
  topResources, \* perf-test: const topResources
  textReport,   \* perf-test: the text report file, << >> while unwritten
  jsonReport,   \* perf-test: the JSON report file, << >> while unwritten
  netpc,        \* detailed analysis: "idle" | "collect" | "done"
  networkRequests,  \* detailed analysis: const networkRequests = []
  networkStats, \* detailed analysis: const networkStats, << >> while unset
  shpc,         \* run_universal_perf_test.sh: position in the script
  nodeExit,     \* exit status of the node test process, -1 before it ran
  shStatus,     \* $? as read by the script's if
  outDir,       \* whether the directory out exists
  mdFile,       \* whether performance_report.md exists
  shLog,        \* what the script printed through print_success/_error
  shExit,       \* exit status of the script, -1 while it runs
  moved,        \* the report was moved to the output directory
  copied        \* out/* was copied to the output directory

vars == << prog, optsReload, pc, step, err, exitCode, browser, report,
           reportFile, rs, ai, inHandler, clicked, waiting, waitMode,
           pending, timer, sleeping, tracing, tlog, log, sinceAction,
           blankRes, loc, strat, acc, snap, thrown, gen, gpc, gn, gi, cur,
           sec, out, clsValue, winCLS, shifts, page,
           navigationFailed, resources, byType, protocolStats, topResources,
           textReport, jsonReport, netpc, networkRequests, networkStats,
           shpc, nodeExit, shStatus, outDir, mdFile, shLog, shExit, moved,
           copied >>

runVars  == << err, exitCode, browser, report, reportFile >>
actVars  == << ai, inHandler, clicked, waiting, waitMode >>
histVars == << tlog, log, sinceAction, strat >>

-----------------------------------------------------------------------------
(* Program constants *)

SETTLE_MS == 2500
ACTION_SLEEP_MS == 1000

\* granularity of the passage of time in the model
TickMs == 1250

\* page actions of earlier steps that may still be unsettled when the next
\* step is entered
MaxLinger == 1

Progs == {"full", "enhanced"}

\* report.push({ step: ... }) keys, in program order
StepKeys(p) ==
  IF p = "full"
    THEN << "home", "sign_in", "login", "fish", "product", "add_to_cart",
            "view_cart", "checkout", "logout" >>
    ELSE << "homepage", "sign_in", "login", "fish", "product", "add_to_cart",
            "view_cart", "checkout", "logout" >>

NumSteps == Len(StepKeys("full"))

\* opts of every recordTraceAround call: the default { reload: true, ... }
\* or the explicit { reload: true } of the homepage step
CallerReload == TRUE

-----------------------------------------------------------------------------
(* Instructions of the action functions *)

Ins(op, name, guard, caught, awaited) ==
  [op |-> op, name |-> name, guard |-> guard, caught |-> caught,
   awaited |-> awaited]

Goto(name, guard, caught) == Ins("goto", name, guard, caught, TRUE)
Click(name, guard, awaited) == Ins("click", name, guard, FALSE, awaited)
TypeIf(name) == Ins("typeIf", name, "always", TRUE, TRUE)
PageType(name) == Ins("type", name, "always", FALSE, TRUE)
Eval(name, guard) == Ins("evaluate", name, guard, FALSE, TRUE)
Query(name) == Ins("query", name, "always", FALSE, TRUE)
WaitNav == Ins("waitNav", "nav", "always", TRUE, TRUE)
Race == Ins("race", "race", "always", FALSE, TRUE)
All(guard) == Ins("all", "all", guard, FALSE, TRUE)
Sleep == Ins("sleep", "sleep", "always", FALSE, TRUE)

\* full_scenario_perf.mjs run(): the nine action functions
FullBody(k) ==
  CASE k = 1 -> << Goto("base", "always", FALSE) >>
    [] k = 2 -> << Click("c1", "always", TRUE),
                   Goto("fb", "ifFalsy", TRUE), Sleep >>
    [] k = 3 -> << TypeIf("t1"), TypeIf("t2"),
                   Click("c1", "always", TRUE), Click("c2", "ifFalsy", TRUE),
                   Click("c3", "ifFalsy", TRUE),
                   Eval("fb", "ifFalsy"), WaitNav, Sleep >>
    [] k = 4 -> << Click("c1", "always", TRUE),
                   Goto("fb", "ifFalsy", TRUE), WaitNav, Sleep >>
    [] k = 5 -> << Click("c1", "always", TRUE),
                   Eval("fb", "ifFalsy"), WaitNav, Sleep >>
    [] k = 6 -> << Click("c1", "always", TRUE),
                   Eval("fb", "ifFalsy"), WaitNav, Sleep >>
    [] k = 7 -> << Click("c1", "always", TRUE), Click("c2", "ifFalsy", FALSE),
                   Click("c3", "ifFalsy", FALSE),
                   Goto("fb", "ifFalsy", TRUE), WaitNav, Sleep >>
    [] k = 8 -> << Click("c1", "always", TRUE), Click("c2", "ifFalsy", FALSE),
                   Eval("fb", "ifFalsy"), WaitNav, Sleep >>
    [] k = 9 -> << Click("c1", "always", TRUE), Click("c2", "ifFalsy", FALSE),
                   Goto("fb", "ifFalsy", TRUE), WaitNav, Sleep >>

\* enhanced_perf_test.mjs main(): the try blocks of the nine action functions
EnhBody(k) ==
  CASE k = 1 -> << Goto("base", "always", FALSE), Sleep >>
    [] k \in {2, 4} -> << Race, Sleep >>
    [] k = 3 -> << PageType("t1"), PageType("t2"), All("always"), Sleep >>
    [] k = 5 -> << Query("q"), All("ifTruthy"), Sleep >>
    [] k \in {6, 7, 8, 9} -> << All("always"), Sleep >>

\* enhanced_perf_test.mjs main(): the catch blocks
EnhHandler(k) ==
  IF k \in {2, 4, 7, 9} THEN << Goto("fb2", "always", FALSE), Sleep >>
                        ELSE << >>

\* the action function has a try/catch around its body
HasTry(p, k) == p = "enhanced" /\ k # 1

Body(p, k) == IF p = "full" THEN FullBody(k) ELSE EnhBody(k)
Handler(p, k) == IF p = "full" THEN << >> ELSE EnhHandler(k)

Code == IF inHandler THEN Handler(prog, step) ELSE Body(prog, step)

\* recordTraceAround that never stops its capture
RtaStmtsNoStop(p) ==
  IF p = "full"
    THEN << "blank", "start", "action", "settle", "parse", "save", "ret" >>
    ELSE << "blank", "start", "action", "settle", "metrics", "writeMetrics",
            "writeTrace", "ret" >>

\* recordTraceAround that stops the capture before the snapshot is sampled
RtaStmtsStopFirst(p) ==
  IF p = "full"
    THEN << "blank", "start", "action", "stop", "settle", "parse", "save",
            "ret" >>
    ELSE << "blank", "start", "action", "settle", "stop", "metrics",
            "writeMetrics", "writeTrace", "ret" >>

\* statements of recordTraceAround, in source order
RtaStmts(p) ==
  IF p = "full"
    THEN << "blank", "start", "action", "settle", "stop", "parse", "save",
            "ret" >>
    ELSE << "blank", "start", "action", "settle", "metrics", "writeMetrics",
            "stop", "writeTrace", "ret" >>

Stmt == IF pc = "rta" THEN RtaStmts(prog)[rs] ELSE "none"

Lab(kind, name) == << step, kind, name >>
IsPageAction(l) == l[2] \in {"click", "type", "goto", "evaluate"}
inflight == {l \in pending : IsPageAction(l)}

Min(a, b) == IF a < b THEN a ELSE b

-----------------------------------------------------------------------------
(* The report generators, each run over a report file of the runner:        *)
(*   "md"   scripts/markdown_report.mjs generateReport                      *)
(*   "html" generateHtmlReport (second half of enhanced_perf_test.mjs)      *)
(*   "enh"  scripts/generate_enhanced_report.mjs generateReport             *)
(*   "docx" generateReport over the trace files (parseTraceMetrics)         *)
(*   "mcp"  scripts/generate_mcp_report.mjs generateComprehensiveReport     *)
(* Times are in milliseconds, CLS in thousandths.                            *)

Gens == {"md", "html", "enh", "docx", "mcp"}

\* entries of the report file a generator is run over
MaxEntries == 2

\* JavaScript values that are not numbers
Absent == -1     \* undefined / null
NaN == -2        \* the result of arithmetic on undefined
NA == -3         \* the text 'N/A'
Omitted == -4    \* the line or cell is not emitted

LCP_MAX == 2500
CLS_MAX == 100
TTFB_MAX == 600
TBT_MAX == 200
LONG_TASK_MS == 50

IsNum(x) == x \notin {Absent, NaN, NA, Omitted}

\* x is falsy: undefined, null, NaN or 0
Falsy(x) == x \in {Absent, NaN, 0}

\* x || d
JsOr(x, d) == IF Falsy(x) THEN d ELSE x

\* x > t and x < t: false as soon as x is not a number ('N/A' and undefined
\* convert to NaN)
JsGt(x, t) == IsNum(x) /\ x > t
JsLt(x, t) == IsNum(x) /\ x < t

\* a - b
JsSub(a, b) == IF IsNum(a) /\ IsNum(b) THEN a - b ELSE NaN

\* (x / 1000).toFixed(2), in hundredths of a second
Centis(x) == (x + 5) \div 10

\* a reduce that adds duration - 50 without the floor at 0
RECURSIVE TBTNoFloor(_)
TBTNoFloor(tasks) ==
  IF tasks = << >> THEN 0
  ELSE (Head(tasks) - LONG_TASK_MS) + TBTNoFloor(Tail(tasks))

\* longTasks.reduce((sum, task) => sum + Math.max(0, task.duration - 50), 0)
RECURSIVE TBT(_)
TBT(tasks) ==
  IF tasks = << >> THEN 0
  ELSE (IF Head(tasks) > LONG_TASK_MS THEN Head(tasks) - LONG_TASK_MS ELSE 0)
       + TBT(Tail(tasks))

\* contents of a metrics file written by the enhanced runner: what
\* getPerformanceMetrics returned
MetricsSet ==
  [ lcp : {Absent, 2500, 2501},
    cls : {Absent, 100, 101},
    inp : {Absent, 80},
    nav : {[has |-> FALSE, requestStart |-> Absent, responseStart |-> Absent],
           [has |-> TRUE, requestStart |-> Absent, responseStart |-> 300],
           [has |-> TRUE, requestStart |-> 100, responseStart |-> 300],
           [has |-> TRUE, requestStart |-> 100, responseStart |-> 700],
           [has |-> TRUE, requestStart |-> 100, responseStart |-> 701]},
    lt  : {[has |-> FALSE, tasks |-> << >>], [has |-> TRUE, tasks |-> << >>],
           [has |-> TRUE, tasks |-> << 50 >>],
           [has |-> TRUE, tasks |-> << 120 >>],
           [has |-> TRUE, tasks |-> << 250 >>],
           [has |-> TRUE, tasks |-> << 40, 251 >>]} ]

\* entry.metrics.result.payload of the MCP report
PayloadSet ==
  [ lcp : {Absent, 2500, 2501},
    cls : {Absent, 100, 101},
    inp : {Absent, 80},
    ttfb : {Absent, 600, 601},
    tbt : {Absent, 200, 201} ]

\* an object none of whose metric fields is set: {} / { error: '...' }
NoMetrics ==
  [ lcp |-> Absent, cls |-> Absent, inp |-> Absent,
    nav |-> [has |-> FALSE, requestStart |-> Absent, responseStart |-> Absent],
    lt |-> [has |-> FALSE, tasks |-> << >>] ]

\* states of the artifact (metrics file, trace file) an entry points to
FileStates == {"ok", "missing", "empty", "malformed"}

\* what a generator can find behind one entry
Inputs(g) ==
  IF g = "mcp" THEN [file : {"ok"}, m : PayloadSet]
  ELSE IF g = "docx" THEN [file : FileStates, m : {NoMetrics}]
  ELSE [file : {"ok"}, m : MetricsSet]
         \cup [file : FileStates \ {"ok"}, m : {NoMetrics}]

HasTasks(m) == m.lt.has /\ Len(m.lt.tasks) > 0

Flags(l, c, f, b) ==
  (IF l THEN {"lcp"} ELSE {}) \cup (IF c THEN {"cls"} ELSE {})
    \cup (IF f THEN {"ttfb"} ELSE {}) \cup (IF b THEN {"tbt"} ELSE {})

Sec(sl, sc, si, sf, sb, al, ac, ab, fl, rw) ==
  [ shown |-> [lcp |-> sl, cls |-> sc, inp |-> si, ttfb |-> sf, tbt |-> sb],
    analysed |-> [lcp |-> al, cls |-> ac, tbt |-> ab],
    flags |-> fl,
    rowWarn |-> rw ]

NoSec ==
  Sec(Omitted, Omitted, Omitted, Omitted, Omitted, Absent, Absent, Absent,
      {}, FALSE)

\* markdown generateReport: the body of the try block for one entry
MdSec(m) ==
  Sec(IF Falsy(m.lcp) THEN NA ELSE Centis(m.lcp),
      IF m.cls = Absent THEN NA ELSE m.cls,
      IF m.inp = Absent THEN NA ELSE m.inp,
      IF m.nav.has THEN JsSub(m.nav.responseStart, m.nav.requestStart)
                   ELSE Omitted,
      IF HasTasks(m) THEN TBT(m.lt.tasks) ELSE Omitted,
      m.lcp, m.cls,
      IF HasTasks(m) THEN TBT(m.lt.tasks) ELSE Absent,
      Flags(JsGt(m.lcp, LCP_MAX), JsGt(m.cls, CLS_MAX), FALSE,
            HasTasks(m) /\ TBT(m.lt.tasks) > TBT_MAX),
      FALSE)

\* generateHtmlReport: the template of one entry
HtmlSec(m) ==
  LET ttfb == IF m.nav.has
                THEN JsSub(m.nav.responseStart, m.nav.requestStart)
                ELSE Absent
      tbt == TBT(IF m.lt.has THEN m.lt.tasks ELSE << >>)
  IN Sec(IF Falsy(m.lcp) THEN NA ELSE Centis(m.lcp),
         IF m.cls = Absent THEN NA ELSE m.cls,
         IF m.inp = Absent THEN NA ELSE m.inp,
         IF ttfb = Absent THEN NA ELSE ttfb,
         tbt,
         m.lcp, m.cls, tbt,
         Flags(JsGt(m.lcp, LCP_MAX), JsGt(m.cls, CLS_MAX),
               JsGt(ttfb, TTFB_MAX), tbt > TBT_MAX),
         FALSE)

\* generate_enhanced_report: analyzeTraceMetrics and the table row
EnhSec(m) ==
  LET lcp == JsOr(m.lcp, 0)
      cls == JsOr(m.cls, 0)
      longTasks == IF m.lt.has THEN m.lt.tasks ELSE << >>
  IN Sec(JsOr(m.lcp, NA),
         JsOr(m.cls, NA),
         JsOr(m.inp, NA),
         JsOr(JsSub(m.nav.responseStart, m.nav.requestStart), NA),
         JsOr(IF m.lt.has THEN TBT(m.lt.tasks) ELSE Absent, NA),
         lcp, cls,
         IF Len(longTasks) > 0 THEN TBT(longTasks) ELSE Absent,
         Flags(lcp > LCP_MAX, cls > CLS_MAX, FALSE,
               Len(longTasks) > 0 /\ TBT(longTasks) > TBT_MAX),
         FALSE)

\* generateComprehensiveReport: the table row and the detail of one entry
McpSec(p) ==
  LET lcp == JsOr(p.lcp, NA)
      cls == JsOr(p.cls, 0)
  IN Sec(lcp, cls, JsOr(p.inp, NA), JsOr(p.ttfb, NA), JsOr(p.tbt, NA),
         p.lcp, p.cls, p.tbt,
         Flags(JsGt(p.lcp, LCP_MAX), JsGt(p.cls, CLS_MAX),
               JsGt(p.ttfb, TTFB_MAX), JsGt(p.tbt, TBT_MAX)),
         ~(JsLt(lcp, LCP_MAX) /\ JsLt(cls, CLS_MAX)))

\* the exception of an unreadable artifact leaves the generator
Aborts(g, file) == file # "ok" /\ g \in {"enh", "docx"}

\* what the generator emits for an entry whose artifact is in state file
Kind(g, file) ==
  IF file # "ok" /\ g = "md" THEN "error" ELSE "section"

Render(g, e) ==
  CASE g = "md" -> IF e.file = "ok" THEN MdSec(e.m) ELSE NoSec
    [] g = "html" -> HtmlSec(e.m)
    [] g = "enh" -> EnhSec(e.m)
    [] g = "mcp" -> McpSec(e.m)
    [] OTHER -> NoSec

NoEntry == [file |-> "none", m |-> NoMetrics]

genVars == << gen, gpc, gn, gi, cur, sec, out >>

\* the variables of the runners
procVars == << prog, optsReload, pc, step, err, exitCode, browser, report,
               reportFile, rs, ai, inHandler, clicked, waiting, waitMode,
               pending, timer, sleeping, tracing, tlog, log, sinceAction,
               blankRes, loc, strat, acc, snap, thrown >>

\* the variables of the CLS observer
obsVars == << clsValue, winCLS, shifts >>

\* the variables of the detailed analysis
netVars == << netpc, networkRequests, networkStats >>

\* the variables of run_universal_perf_test.sh
shVars == << shpc, nodeExit, shStatus, outDir, mdFile, shLog, shExit, moved,
             copied >>

\* the variables of perf-test.mjs besides pc, browser, exitCode, thrown, log
\* and timer
perfVars == << page, navigationFailed, resources, byType, protocolStats,
               topResources, textReport, jsonReport >>

\* the variables of the programs that are not the scenario runners
sideVars == << obsVars, perfVars, netVars, shVars >>

\* everything but the generators' variables
runnerVars == << procVars, sideVars >>

-----------------------------------------------------------------------------
(* The in-page CLS observer installed by injectPerformanceObserver:          *)
(*   let clsValue = 0;                                                       *)
(*   new PerformanceObserver((list) => {                                     *)
(*     for (const entry of list.getEntries())                                *)
(*       if (!entry.hadRecentInput) clsValue += entry.value;                 *)
(*     window.__CLS = clsValue; })                                           *)
(* Shift values are in thousandths.                                          *)

\* layout shifts delivered to one document
MaxShifts == 4

ShiftEntries == [value : {10, 60}, hadRecentInput : BOOLEAN]

\* a loop body that adds every entry
ClsAddAll(sum, entry) == sum + entry.value

\* if (!entry.hadRecentInput) { clsValue += entry.value; }
ClsAdd(sum, entry) ==
  IF ~entry.hadRecentInput THEN sum + entry.value ELSE sum

\* for (const entry of list.getEntries()) { ... }, started with clsValue = sum
RECURSIVE ClsLoop(_, _)
ClsLoop(sum, batch) ==
  IF batch = << >> THEN sum
  ELSE ClsLoop(ClsAdd(sum, Head(batch)), Tail(batch))

\* the script has run in the document and no entry was delivered
ObsIdle ==
  /\ clsValue = 0
  /\ winCLS = Absent
  /\ shifts = << >>

\* the observer's callback runs with a batch of one or more entries
ClsDeliver ==
  /\ \E n \in 1..(MaxShifts - Len(shifts)) :
       \E batch \in [1..n -> ShiftEntries] :
         /\ clsValue' = ClsLoop(clsValue, batch)
         /\ winCLS' = clsValue'
         /\ shifts' = shifts \o batch
  /\ UNCHANGED << procVars, genVars, perfVars, netVars, shVars >>

\* a new document is created: evaluateOnNewDocument runs the script again
ClsNewDocument ==
  /\ shifts # << >>
  /\ clsValue' = 0
  /\ winCLS' = Absent
  /\ shifts' = << >>
  /\ UNCHANGED << procVars, genVars, perfVars, netVars, shVars >>

NextCls == ClsDeliver \/ ClsNewDocument

-----------------------------------------------------------------------------
(* perf-test.mjs: runPerformanceTest loads one URL, reads the page's          *)
(* resource timings, groups them and writes a text and a JSON report.         *)

\* resources read from one page
MaxRes == 3

\* await new Promise(resolve => setTimeout(resolve, 1500))
STABILISE_MS == 1500

\* the granularity in which the stabilisation delay elapses
PerfTickMs == 500

\* .slice(0, 10)
TOP_N == 10

\* entries of performanceData.resources after the in-page map:
\* transferSize: r.transferSize || 0, nextHopProtocol: ... || 'http/1.1'
ResourceSet ==
  { [name |-> "a.js", initiatorType |-> "script", nextHopProtocol |-> "h2",
     transferSize |-> 300],
    [name |-> "b.png", initiatorType |-> "img",
     nextHopProtocol |-> "http/1.1", transferSize |-> 100],
    [name |-> "c.png", initiatorType |-> "img", nextHopProtocol |-> "h2",
     transferSize |-> 0],
    [name |-> "d.js", initiatorType |-> "script",
     nextHopProtocol |-> "http/1.1", transferSize |-> 300] }

ResourceLists == UNION { [1..n -> ResourceSet] : n \in 0..MaxRes }

\* if (!stats[key]) stats[key] = { count: 0, size: 0 };
\* stats[key].count++; stats[key].size += size
BucketAdd(stats, key, size) ==
  IF key \in DOMAIN stats
    THEN [stats EXCEPT ![key] = [count |-> @.count + 1,
                                 size |-> @.size + size]]
    ELSE (key :> [count |-> 1, size |-> size]) @@ stats

NoBuckets == [k \in {} |-> [count |-> 0, size |-> 0]]

\* resources.forEach(r => { ... byType[r.initiatorType] ... })
RECURSIVE ByType(_, _)
ByType(stats, rl) ==
  IF rl = << >> THEN stats
  ELSE ByType(BucketAdd(stats, Head(rl).initiatorType,
                        Head(rl).transferSize), Tail(rl))

\* const protocol = r.nextHopProtocol || 'unknown'
Protocol(r) == IF r.nextHopProtocol = "" THEN "unknown" ELSE r.nextHopProtocol

\* resources.forEach(r => { ... protocolStats[protocol] ... })
RECURSIVE ProtocolStats(_, _)
ProtocolStats(stats, rl) ==
  IF rl = << >> THEN stats
  ELSE ProtocolStats(BucketAdd(stats, Protocol(Head(rl)),
                               Head(rl).transferSize), Tail(rl))

\* r is placed behind every element that is not smaller: the sort is stable
RECURSIVE InsertDesc(_, _)
InsertDesc(r, sorted) ==
  IF sorted = << >> THEN << r >>
  ELSE IF Head(sorted).transferSize >= r.transferSize
         THEN << Head(sorted) >> \o InsertDesc(r, Tail(sorted))
         ELSE << r >> \o sorted

\* .sort((a, b) => b.transferSize - a.transferSize)
RECURSIVE SortDesc(_)
SortDesc(rl) ==
  IF rl = << >> THEN << >>
  ELSE InsertDesc(rl[Len(rl)], SortDesc(SubSeq(rl, 1, Len(rl) - 1)))

\* .slice(0, 10)
TopSlice(rl) == SubSeq(rl, 1, IF Len(rl) < TOP_N THEN Len(rl) ELSE TOP_N)

\* the list held by `resources` had the sort been applied to it directly
AfterTopSortInPlace(rl) == SortDesc(rl)

\* the list held by `resources` after [...resources].sort(...): the spread
\* made a new array, the sort reordered that one
AfterTopSort(rl) == rl

\* `${navigationFailed}`
BoolText(b) == IF b THEN "true" ELSE "false"

\* perf-test.mjs has not run
PerfIdle ==
  /\ page = "none"
  /\ navigationFailed = FALSE
  /\ resources = << >>
  /\ byType = NoBuckets
  /\ protocolStats = NoBuckets
  /\ topResources = << >>
  /\ textReport = << >>
  /\ jsonReport = << >>


perfFrame == << genVars, obsVars, netVars, shVars, prog, optsReload, step, err, report,
                reportFile, rs, ai, inHandler, clicked, waiting, waitMode,
                pending, sleeping, tracing, tlog, sinceAction, blankRes, loc,
                strat, acc, snap >>

PerfAt(l) == prog = "perf" /\ pc = l

\* catch (error) { console.error(...); process.exit(1); }: the process ends
\* inside the catch block, before the finally block is entered
PerfCatch(c) ==
  /\ pc' = "exited"
  /\ exitCode' = 1
  /\ thrown' = c

\* await ensureOutputFolder(), which exits with 1 when mkdir fails
PerfEnsureOut ==
  /\ PerfAt("ensureOut")
  /\ \E ok \in BOOLEAN :
       IF ok THEN pc' = "launch" /\ UNCHANGED << exitCode, thrown >>
             ELSE PerfCatch("ensureOut")
  /\ UNCHANGED << perfFrame, perfVars, browser, log, timer >>

\* browser = await puppeteer.launch(...)
PerfLaunch ==
  /\ PerfAt("launch")
  /\ \E ok \in BOOLEAN :
       IF ok THEN /\ pc' = "newPage" /\ browser' = "open"
                  /\ UNCHANGED << exitCode, thrown >>
             ELSE PerfCatch("launch") /\ browser' = browser
  /\ UNCHANGED << perfFrame, perfVars, log, timer >>

\* page = await browser.newPage()
PerfNewPage ==
  /\ PerfAt("newPage")
  /\ \E ok \in BOOLEAN :
       IF ok THEN /\ pc' = "setup" /\ page' = "open"
                  /\ UNCHANGED << exitCode, thrown >>
             ELSE PerfCatch("newPage") /\ page' = page
  /\ UNCHANGED << perfFrame, navigationFailed, resources, byType,
                  protocolStats, topResources, textReport, jsonReport,
                  browser, log, timer >>

\* setViewport, createCDPSession, Network.enable, setCacheDisabled,
\* emulateNetworkConditions
PerfSetup ==
  /\ PerfAt("setup")
  /\ \E ok \in BOOLEAN :
       IF ok THEN pc' = "goto" /\ UNCHANGED << exitCode, thrown >>
             ELSE PerfCatch("setup")
  /\ UNCHANGED << perfFrame, perfVars, browser, log, timer >>

\* a page.goto without its own try/catch
GotoUncaught == FALSE

\* the try/catch around page.goto handles its rejection
GotoCaught == TRUE

\* try { await page.goto(targetUrl, ...) }
\* catch (error) { navigationFailed = true; ... }
\* followed by the start of the stabilisation timer
PerfGoto ==
  /\ PerfAt("goto")
  /\ \E rejected \in BOOLEAN :
       /\ log' = Append(log, IF rejected THEN "gotoRejected" ELSE "goto")
       /\ IF rejected /\ ~GotoCaught
            THEN /\ PerfCatch("goto")
                 /\ UNCHANGED << navigationFailed, timer >>
            ELSE /\ navigationFailed' = rejected
                 /\ pc' = "settle"
                 /\ timer' = STABILISE_MS
                 /\ UNCHANGED << exitCode, thrown >>
  /\ UNCHANGED << perfFrame, page, resources, byType, protocolStats,
                  topResources, textReport, jsonReport, browser >>

\* time passes while the stabilisation timer is pending
PerfTick ==
  /\ PerfAt("settle")
  /\ timer > 0
  /\ timer' = IF timer > PerfTickMs THEN timer - PerfTickMs ELSE 0
  /\ UNCHANGED << perfFrame, perfVars, browser, exitCode, thrown, log, pc >>

\* the timer fires; performanceData = await page.evaluate(...)
PerfEvaluate ==
  /\ PerfAt("settle")
  /\ timer = 0
  /\ \/ \E rl \in ResourceLists :
          /\ resources' = rl
          /\ pc' = "analyse"
          /\ log' = Append(log, "metrics")
          /\ UNCHANGED << exitCode, thrown >>
     \/ PerfCatch("evaluate") /\ UNCHANGED << resources, log >>
  /\ UNCHANGED << perfFrame, page, navigationFailed, byType, protocolStats,
                  topResources, textReport, jsonReport, browser, timer >>

\* the totals, the grouping loop and the top-10 list
PerfAnalyse ==
  /\ PerfAt("analyse")
  /\ byType' = ByType(NoBuckets, resources)
  /\ protocolStats' = ProtocolStats(NoBuckets, resources)
  /\ topResources' = TopSlice(SortDesc(resources))
  /\ resources' = AfterTopSort(resources)
  /\ pc' = "writeText"
  /\ UNCHANGED << perfFrame, page, navigationFailed, textReport, jsonReport,
                  browser, exitCode, thrown, log, timer >>

\* await fs.writeFile(reportPath, reportContent)
PerfWriteText ==
  /\ PerfAt("writeText")
  /\ \E ok \in BOOLEAN :
       IF ok
         THEN /\ textReport' =
                   << [navigationFailed |-> BoolText(navigationFailed)] >>
              /\ pc' = "writeJson"
              /\ log' = Append(log, "text")
              /\ UNCHANGED << exitCode, thrown >>
         ELSE PerfCatch("writeText") /\ UNCHANGED << textReport, log >>
  /\ UNCHANGED << perfFrame, page, navigationFailed, resources, byType,
                  protocolStats, topResources, jsonReport, browser, timer >>

\* await fs.writeFile(jsonReportPath, JSON.stringify(jsonReport, null, 2))
PerfWriteJson ==
  /\ PerfAt("writeJson")
  /\ \E ok \in BOOLEAN :
       IF ok
         THEN /\ jsonReport' =
                   << [navigationFailed |-> navigationFailed,
                       totalRequests |-> Len(resources),
                       resourcesByType |-> byType,
                       protocolDistribution |-> protocolStats,
                       topResources |-> topResources] >>
              /\ pc' = "finally"
              /\ log' = Append(log, "json")
              /\ UNCHANGED << exitCode, thrown >>
         ELSE PerfCatch("writeJson") /\ UNCHANGED << jsonReport, log >>
  /\ UNCHANGED << perfFrame, page, navigationFailed, resources, byType,
                  protocolStats, topResources, textReport, browser, timer >>

\* finally { if (page) await page.close(); ...: a rejection leaves the
\* finally block and reaches runPerformanceTest().catch -> process.exit(1)
PerfClosePage ==
  /\ PerfAt("finally")
  /\ \E ok \in BOOLEAN :
       IF ok THEN /\ page' = "closed" /\ pc' = "closeBrowser"
                  /\ UNCHANGED << exitCode, thrown >>
             ELSE PerfCatch("pageClose") /\ page' = page
  /\ UNCHANGED << perfFrame, navigationFailed, resources, byType,
                  protocolStats, topResources, textReport, jsonReport,
                  browser, log, timer >>

\* ... if (browser) await browser.close(); } after which the process ends
PerfCloseBrowser ==
  /\ PerfAt("closeBrowser")
  /\ \E ok \in BOOLEAN :
       IF ok THEN /\ browser' = "closed" /\ pc' = "exited" /\ exitCode' = 0
                  /\ thrown' = thrown
             ELSE PerfCatch("close") /\ browser' = "closeFailed"
  /\ UNCHANGED << perfFrame, perfVars, log, timer >>

NextPerf ==
  \/ PerfEnsureOut \/ PerfLaunch \/ PerfNewPage \/ PerfSetup \/ PerfGoto
  \/ PerfTick \/ PerfEvaluate \/ PerfAnalyse \/ PerfWriteText
  \/ PerfWriteJson \/ PerfClosePage \/ PerfCloseBrowser

-----------------------------------------------------------------------------
(* The detailed analysis (performDetailedAnalysis): CDP events fill          *)
(* networkRequests, which is then aggregated into networkStats.              *)

\* network requests recorded for one page
MaxReqs == 3

\* new URL(url).hostname; "throws" stands for the TypeError of new URL
Hostname(url) ==
  CASE url = "https://a.test/app.js" -> "a.test"
    [] url = "https://a.test/logo.png" -> "a.test"
    [] url = "https://b.test/pixel.gif" -> "b.test"
    [] url = "data:image/gif;base64,R0lG" -> ""
    [] OTHER -> "throws"

\* entries of networkRequests: resourceType is params.type ("" when the
\* event carried none), encodedDataLength is set by Network.loadingFinished
\* and Absent before
RequestSet ==
  { [url |-> "https://a.test/app.js", resourceType |-> "Script",
     encodedDataLength |-> 300],
    [url |-> "https://a.test/logo.png", resourceType |-> "Image",
     encodedDataLength |-> Absent],
    [url |-> "https://b.test/pixel.gif", resourceType |-> "",
     encodedDataLength |-> 100],
    [url |-> "data:image/gif;base64,R0lG", resourceType |-> "Image",
     encodedDataLength |-> 0],
    [url |-> "http://a%3Cb/x.js", resourceType |-> "Script",
     encodedDataLength |-> 100] }

\* req.encodedDataLength || 0
EncodedSize(req) == JsOr(req.encodedDataLength, 0)

\* req.resourceType || 'other'
ResourceType(req) == IF req.resourceType = "" THEN "other" ELSE req.resourceType

\* networkRequests.reduce((sum, r) => sum + (r.encodedDataLength || 0), 0)
RECURSIVE TotalEncoded(_)
TotalEncoded(reqs) ==
  IF reqs = << >> THEN 0
  ELSE EncodedSize(Head(reqs)) + TotalEncoded(Tail(reqs))

\* networkRequests.forEach(req => { ... requestsByType[type] ... })
RECURSIVE RequestsByType(_, _)
RequestsByType(stats, reqs) ==
  IF reqs = << >> THEN stats
  ELSE RequestsByType(BucketAdd(stats, ResourceType(Head(reqs)),
                                EncodedSize(Head(reqs))), Tail(reqs))

\* try { const domain = new URL(req.url).hostname; ... }
\* catch (e) { /* Invalid URL */ }
RECURSIVE RequestsByDomain(_, _)
RequestsByDomain(stats, reqs) ==
  IF reqs = << >> THEN stats
  ELSE LET domain == Hostname(Head(reqs).url) IN
       RequestsByDomain(IF domain = "throws" THEN stats
                        ELSE BucketAdd(stats, domain, EncodedSize(Head(reqs))),
                        Tail(reqs))

\* the detailed analysis does not run
NetIdle ==
  /\ netpc = "idle"
  /\ networkRequests = << >>
  /\ networkStats = << >>

netFrame == << procVars, genVars, obsVars, perfVars, shVars >>

\* client.on('Network.requestWillBeSent', params => networkRequests.push(..))
\* with the loadingFinished event of the request, if one arrived
NetRequest ==
  /\ netpc = "collect"
  /\ Len(networkRequests) < MaxReqs
  /\ \E req \in RequestSet : networkRequests' = Append(networkRequests, req)
  /\ UNCHANGED << netFrame, netpc, networkStats >>

\* const networkStats = { ... }; networkRequests.forEach(...)
NetAggregate ==
  /\ netpc = "collect"
  /\ networkStats' =
       << [totalRequests |-> Len(networkRequests),
           totalTransferSize |-> TotalEncoded(networkRequests),
           requestsByType |-> RequestsByType(NoBuckets, networkRequests),
           requestsByDomain |-> RequestsByDomain(NoBuckets,
                                                 networkRequests)] >>
  /\ netpc' = "done"
  /\ UNCHANGED << netFrame, networkRequests >>

NextNet == NetRequest \/ NetAggregate

-----------------------------------------------------------------------------
(* run_universal_perf_test.sh                                                *)

\* exit statuses of the node test process: success, process.exit(1), killed
NodeExits == {0, 1, 137}

\* the script has not been started
ShIdle ==
  /\ shpc = "idle"
  /\ nodeExit = -1
  /\ shStatus = -1
  /\ outDir = FALSE
  /\ mdFile = FALSE
  /\ shLog = << >>
  /\ shExit = -1
  /\ moved = FALSE
  /\ copied = FALSE

shFrame == << procVars, genVars, obsVars, perfVars, netVars >>

\* print_error "..."; exit 1
ShFail(msg) ==
  /\ shLog' = Append(shLog, msg)
  /\ shpc' = "exited"
  /\ shExit' = 1

\* if [ -z "$1" ]; then ... exit 1; fi
ShCheckUrl ==
  /\ shpc = "start"
  /\ \E given \in BOOLEAN :
       IF given THEN shpc' = "checkNode" /\ UNCHANGED << shLog, shExit >>
                ELSE ShFail("No URL provided!")
  /\ UNCHANGED << shFrame, nodeExit, shStatus, outDir, mdFile, moved,
                  copied >>

\* if ! command -v node; then ... exit 1; fi
ShCheckNode ==
  /\ shpc = "checkNode"
  /\ \E found \in BOOLEAN :
       IF found THEN /\ shpc' = "build"
                     /\ shLog' = Append(shLog, "Node.js found")
                     /\ shExit' = shExit
                ELSE ShFail("Node.js is not installed")
  /\ UNCHANGED << shFrame, nodeExit, shStatus, outDir, mdFile, moved,
                  copied >>

\* npm run build > build.log 2>&1; if [ $? -eq 0 ]; ... else ... exit 1
ShBuild ==
  /\ shpc = "build"
  /\ \E status \in {0, 1} :
       /\ shStatus' = status
       /\ IF status = 0
            THEN /\ shpc' = "test"
                 /\ shLog' = Append(shLog, "Project built successfully")
                 /\ shExit' = shExit
            ELSE ShFail("Build failed")
  /\ UNCHANGED << shFrame, nodeExit, outDir, mdFile, moved, copied >>

\* HEADLESS=false node scripts/run_perf_reload.mjs "$TARGET_URL" 2>&1
\*   | tee "$OUTPUT_DIR/test_output.log"
\* The script sets no pipefail, so $? is the exit status of tee, the last
\* command of the pipeline. The test creates the directory out unless it
\* fails before doing so.
ShRunTest ==
  /\ shpc = "test"
  /\ \E node \in NodeExits, tee \in {0, 1} :
       /\ nodeExit' = node
       /\ shStatus' = tee
  /\ outDir' \in {TRUE, outDir}
  /\ shpc' = "check"
  /\ UNCHANGED << shFrame, mdFile, shLog, shExit, moved, copied >>

\* if [ $? -eq 0 ]; then print_success "Performance test completed"
\* else print_error "Performance test failed"; exit 1; fi
ShCheck ==
  /\ shpc = "check"
  /\ IF shStatus = 0
       THEN /\ shLog' = Append(shLog, "Performance test completed")
            /\ shpc' = "generate"
            /\ shExit' = shExit
       ELSE ShFail("Performance test failed")
  /\ UNCHANGED << shFrame, nodeExit, shStatus, outDir, mdFile, moved,
                  copied >>

\* node scripts/markdown_report.mjs out/report.json, whose status is not
\* read: performance_report.md is written, or left as it was on a failure
ShGenerate ==
  /\ shpc = "generate"
  /\ mdFile' \in {TRUE, mdFile}
  /\ shLog' = Append(shLog, "Generating comprehensive report...")
  /\ shpc' = "move"
  /\ UNCHANGED << shFrame, nodeExit, shStatus, outDir, shExit, moved,
                  copied >>

\* if [ -f "performance_report.md" ]; then mv ...; print_success ...; fi
ShMove ==
  /\ shpc = "move"
  /\ moved' = mdFile
  /\ mdFile' = FALSE
  /\ shLog' = IF mdFile THEN Append(shLog, "Report generated") ELSE shLog
  /\ shpc' = "copy"
  /\ UNCHANGED << shFrame, nodeExit, shStatus, outDir, shExit, copied >>

\* if [ -d "out" ]; then cp -r out/* "$OUTPUT_DIR/"; print_success ...; fi
ShCopy ==
  /\ shpc = "copy"
  /\ copied' = outDir
  /\ shLog' = IF outDir THEN Append(shLog, "Trace files copied") ELSE shLog
  /\ shpc' = "summary"
  /\ UNCHANGED << shFrame, nodeExit, shStatus, outDir, mdFile, shExit,
                  moved >>

\* print_header "Performance Test Complete!" ... and the end of the script
ShSummary ==
  /\ shpc = "summary"
  /\ shLog' = Append(shLog, "Performance Test Complete!")
  /\ shpc' = "exited"
  /\ shExit' = 0
  /\ UNCHANGED << shFrame, nodeExit, shStatus, outDir, mdFile, moved,
                  copied >>

NextSh ==
  \/ ShCheckUrl \/ ShCheckNode \/ ShBuild \/ ShRunTest \/ ShCheck
  \/ ShGenerate \/ ShMove \/ ShCopy \/ ShSummary

SideIdle == ObsIdle /\ PerfIdle /\ NetIdle /\ ShIdle

-----------------------------------------------------------------------------
\* no generator runs
GenIdle ==
  /\ gen = "none"
  /\ gpc = "idle"
  /\ gn = 0
  /\ gi = 0
  /\ cur = NoEntry
  /\ sec = NoSec
  /\ out = << >>

\* const reportData = JSON.parse(await fs.readFile(reportPath, 'utf-8'))
GenLoad ==
  /\ gpc = "load"
  /\ \/ \E n \in 1..MaxEntries : gn' = n /\ gi' = 1 /\ gpc' = "loop"
     \/ gn' = gn /\ gi' = gi /\ gpc' = "failed"
  /\ UNCHANGED << runnerVars, gen, cur, sec, out >>

\* one entry of reportData is read and rendered
GenEntry ==
  /\ gpc = "loop"
  /\ gi <= gn
  /\ \E e \in Inputs(gen) :
       /\ cur' = e
       /\ IF Aborts(gen, e.file)
            THEN /\ gpc' = "aborted"
                 /\ UNCHANGED << gi, sec, out >>
            ELSE /\ gpc' = gpc
                 /\ gi' = gi + 1
                 /\ sec' = Render(gen, e)
                 /\ out' = Append(out, [step |-> gi, kind |-> Kind(gen, e.file)])
  /\ UNCHANGED << runnerVars, gen, gn >>

\* the document is assembled and written. In the trace-file generator the
\* initialiser of `const doc` reads doc itself (Media.addImage(doc, ...)),
\* which throws before anything is written.
GenWrite ==
  /\ gpc = "loop"
  /\ gi > gn
  /\ gpc' \in IF gen = "docx" THEN {"failed"} ELSE {"done", "failed"}
  /\ UNCHANGED << runnerVars, gen, gn, gi, cur, sec, out >>

NextGen == GenLoad \/ GenEntry \/ GenWrite

InitGen ==
  /\ prog = "none"
  /\ optsReload = CallerReload
  /\ pc = "ensureOut"
  /\ step = 0
  /\ err = FALSE
  /\ exitCode = -1
  /\ browser = "none"
  /\ report = << >>
  /\ reportFile = << >>
  /\ rs = 0
  /\ ai = 0
  /\ inHandler = FALSE
  /\ clicked = "undef"
  /\ waiting = {}
  /\ waitMode = "none"
  /\ pending = {}
  /\ timer = 0
  /\ sleeping = FALSE
  /\ tracing = FALSE
  /\ tlog = << >>
  /\ log = << >>
  /\ sinceAction = 0
  /\ blankRes = "none"
  /\ loc = "blank"
  /\ strat = << >>
  /\ acc = {}
  /\ snap = {}
  /\ thrown = "none"
  /\ SideIdle
  /\ gen \in Gens
  /\ gpc = "load"
  /\ gn = 0
  /\ gi = 0
  /\ cur = NoEntry
  /\ sec = NoSec
  /\ out = << >>

SpecGen == InitGen /\ [][NextGen]_vars

\* process p is about to start
ProcStart(p) ==
  /\ prog = p
  /\ optsReload = CallerReload
  /\ pc = "ensureOut"
  /\ step = 0
  /\ err = FALSE
  /\ exitCode = -1
  /\ browser = "none"
  /\ report = << >>
  /\ reportFile = << >>
  /\ rs = 0
  /\ ai = 0
  /\ inHandler = FALSE
  /\ clicked = "undef"
  /\ waiting = {}
  /\ waitMode = "none"
  /\ pending = {}
  /\ timer = 0
  /\ sleeping = FALSE
  /\ tracing = FALSE
  /\ tlog = << >>
  /\ log = << >>
  /\ sinceAction = 0
  /\ blankRes = "none"
  /\ loc = "blank"
  /\ strat = << >>
  /\ acc = {}
  /\ snap = {}
  /\ thrown = "none"

\* no runner process exists
ProcIdle == ProcStart("none")

\* a document in which the observer script has just run
InitCls == ProcIdle /\ GenIdle /\ SideIdle

\* node perf-test.mjs <url> [folder] with a valid URL
InitPerf == ProcStart("perf") /\ GenIdle /\ SideIdle

SpecPerf == InitPerf /\ [][NextPerf]_vars

\* performDetailedAnalysis after page.goto: the CDP events arrive, then the
\* statistics are aggregated
InitNet ==
  /\ ProcIdle /\ GenIdle /\ ObsIdle /\ PerfIdle /\ ShIdle
  /\ netpc = "collect"
  /\ networkRequests = << >>
  /\ networkStats = << >>

SpecNet == InitNet /\ [][NextNet]_vars

\* a run of either program that groups what it recorded
SpecGroup == (InitPerf \/ InitNet) /\ [][NextPerf \/ NextNet]_vars

\* ./run_universal_perf_test.sh [url], in a working directory that may hold
\* out/ and performance_report.md from an earlier run
InitSh ==
  /\ ProcIdle /\ GenIdle /\ ObsIdle /\ PerfIdle /\ NetIdle
  /\ shpc = "start"
  /\ nodeExit = -1
  /\ shStatus = -1
  /\ outDir \in BOOLEAN
  /\ mdFile \in BOOLEAN
  /\ shLog = << >>
  /\ shExit = -1
  /\ moved = FALSE
  /\ copied = FALSE

SpecSh == InitSh /\ [][NextSh]_vars

\* a run of any program that renders a report: a generator over a report
\* file, or perf-test.mjs over the resources it read
SpecRender == (InitGen \/ InitPerf) /\ [][NextGen \/ NextPerf]_vars

SpecCls == InitCls /\ [][NextCls]_vars

-----------------------------------------------------------------------------
Init ==
  /\ prog \in Progs
  /\ optsReload = CallerReload
  /\ pc = "ensureOut"
  /\ step = 0
  /\ err = FALSE
  /\ exitCode = -1
  /\ browser = "none"
  /\ report = << >>
  /\ reportFile = << >>
  /\ rs = 0
  /\ ai = 0
  /\ inHandler = FALSE
  /\ clicked = "undef"
  /\ waiting = {}
  /\ waitMode = "none"
  /\ pending = {}
  /\ timer = 0
  /\ sleeping = FALSE
  /\ tracing = FALSE
  /\ tlog = << >>
  /\ log = << >>
  /\ sinceAction = 0
  /\ blankRes = "none"
  /\ loc = "blank"
  /\ strat = << >>
  /\ acc = {}
  /\ snap = {}
  /\ thrown = "none"
  /\ GenIdle
  /\ SideIdle

-----------------------------------------------------------------------------
(* Control transfer *)

Ctl(npc, nerr, nexit, nrs, nai, nh, nclk, nw, nm) ==
  /\ pc' = npc
  /\ err' = nerr
  /\ exitCode' = nexit
  /\ rs' = nrs
  /\ ai' = nai
  /\ inHandler' = nh
  /\ clicked' = nclk
  /\ waiting' = nw
  /\ waitMode' = nm

\* an exception leaves the try block of run() / main():
\* full: finally { browser.close() } then run().catch -> process.exit(1);
\* enhanced: catch (e) { process.exit(1) }
Propagate ==
  IF prog = "full"
    THEN Ctl("finally", TRUE, exitCode, rs, ai, inHandler, clicked, {}, "none")
    ELSE Ctl("exited", err, 1, rs, ai, inHandler, clicked, {}, "none")

\* an exception inside the action function
ActThrow ==
  IF HasTry(prog, step) /\ ~inHandler
    THEN Ctl(pc, err, exitCode, rs, 1, TRUE, clicked, {}, "none")
    ELSE Propagate

\* the awaited instruction is done; the local variable becomes nclk
Advance(nclk) ==
  Ctl(pc, err, exitCode, rs, ai + 1, inHandler, nclk, {}, "none")

\* the current statement of recordTraceAround is done
NextStmt ==
  Ctl(pc, err, exitCode, rs + 1, ai, inHandler, clicked, {}, "none")

Stay == UNCHANGED << pc, err, exitCode, rs, ai, inHandler, clicked, waiting,
                     waitMode >>

Running == pc = "rta" /\ waiting = {} /\ ~sleeping

\* this step makes run()/main() fail: an exception starts to propagate out of
\* the try block, or the process exits with status 1
Failing == (err' /\ ~err) \/ (exitCode' = 1 /\ exitCode # 1)

\* the statement that made the run fail is the one named c
Cause(c) == thrown' = IF Failing THEN c ELSE thrown

-----------------------------------------------------------------------------
(* run() / main() *)

\* await ensureOut()
EnsureOut ==
  /\ pc = "ensureOut"
  /\ \E ok \in BOOLEAN :
       IF ok THEN pc' = "launch" /\ exitCode' = exitCode
             ELSE pc' = "exited" /\ exitCode' = 1
  /\ UNCHANGED << genVars, sideVars, prog, acc, snap, optsReload, step, err, browser,
                  report, reportFile, rs, actVars, pending, timer, sleeping,
                  tracing, histVars, blankRes, loc >>
  /\ Cause("ensureOut")

\* const browser = await launch(...)
Launch ==
  /\ pc = "launch"
  /\ \E ok \in BOOLEAN :
       IF ok THEN pc' = "setup" /\ browser' = "open" /\ exitCode' = exitCode
             ELSE pc' = "exited" /\ browser' = browser /\ exitCode' = 1
  /\ UNCHANGED << genVars, sideVars, prog, acc, snap, optsReload, step, err, report,
                  reportFile, rs, actVars, pending, timer, sleeping, tracing,
                  histVars, blankRes, loc >>
  /\ Cause("launch")

\* McpContext.from + context.newPage  /  browser.newPage + setViewport +
\* injectPerformanceObserver; const report = []
Setup ==
  /\ pc = "setup"
  /\ \E ok \in BOOLEAN :
       IF ok THEN Ctl("call", err, exitCode, rs, ai, inHandler, clicked,
                      waiting, waitMode)
             ELSE Propagate
  /\ UNCHANGED << genVars, sideVars, prog, acc, snap, optsReload, step, browser, report,
                  reportFile, pending, timer, sleeping, tracing, histVars,
                  blankRes, loc >>
  /\ Cause("setup")

\* recordTraceAround(page, name, actionFn[, opts]) is called for the next step
CallStep ==
  /\ pc = "call"
  /\ step < NumSteps
  /\ Cardinality(pending) <= MaxLinger
  /\ step' = step + 1
  /\ Ctl("rta", err, exitCode, 1, 0, FALSE, "undef", {}, "none")
  /\ log' = << >>
  /\ sinceAction' = 0
  /\ blankRes' = "none"
  /\ strat' = << >>
  /\ UNCHANGED << genVars, sideVars, prog, acc, thrown, optsReload, browser, report,
                  reportFile, pending, timer, sleeping, tracing, tlog, loc >>
  /\ snap' = {}

\* the object returned by recordTraceAround is { parsed, summary, file } /
\* { path, metricsPath, metrics }: it has no error member, whatever happened
\* inside the action function
ResultError == "none"

\* a push that drops the steps whose strategies failed
PushEntryOnlyClean(rep, key) ==
  IF \E i \in DOMAIN strat : strat[i].res \in {"notfound", "rejected"}
    THEN rep
    ELSE Append(rep, [step |-> key, error |-> ResultError])

\* a push that puts the newest entry first
PushEntryFront(rep, key) == << [step |-> key, error |-> ResultError] >> \o rep

PushEntry(rep, key) == Append(rep, [step |-> key, error |-> ResultError])

\* after the last push the report is collated
ReportDue(k) == k = NumSteps

\* report.push({ step: ..., ...result })
Push ==
  /\ pc = "push"
  /\ report' = PushEntry(report, StepKeys(prog)[step])
  /\ pc' = IF ReportDue(step) THEN "report" ELSE "call"
  /\ UNCHANGED << genVars, sideVars, prog, acc, snap, thrown, optsReload, step, err,
                  exitCode, browser, reportFile, rs, actVars, pending, timer,
                  sleeping, tracing, histVars, blankRes, loc >>

\* save(`final-report-...txt`, final)  /  fs.writeFile(reportPath, ...)
WriteReport ==
  /\ pc = "report"
  /\ \E ok \in BOOLEAN :
       IF ok
         THEN /\ reportFile' = << report >>
              /\ Ctl(IF prog = "full" THEN "finally" ELSE "close", err,
                     exitCode, rs, ai, inHandler, clicked, waiting, waitMode)
         ELSE /\ reportFile' = reportFile
              /\ Propagate
  /\ UNCHANGED << genVars, sideVars, prog, acc, snap, optsReload, step, browser, report,
                  pending, timer, sleeping, tracing, histVars, blankRes, loc >>
  /\ Cause("writeReport")

\* enhanced: await browser.close() as the last statement of the try block
Close ==
  /\ pc = "close"
  /\ \E ok \in BOOLEAN :
       IF ok THEN pc' = "exited" /\ browser' = "closed" /\ exitCode' = 0
             ELSE pc' = "exited" /\ browser' = "closeFailed" /\ exitCode' = 1
  /\ UNCHANGED << genVars, sideVars, prog, acc, snap, optsReload, step, err, report,
                  reportFile, rs, actVars, pending, timer, sleeping, tracing,
                  histVars, blankRes, loc >>
  /\ Cause("close")

\* full: finally { try { await browser.close(); } catch (e) {} }, after which
\* run() settles and run().catch exits with 1 when it rejected
Finally ==
  /\ pc = "finally"
  /\ browser' \in {"closed", "closeFailed"}
  /\ pc' = "exited"
  /\ exitCode' = IF err THEN 1 ELSE 0
  /\ UNCHANGED << genVars, sideVars, prog, acc, snap, thrown, optsReload, step, err,
                  report, reportFile, rs, actVars, pending, timer, sleeping,
                  tracing, histVars, blankRes, loc >>

\* time passes while a setTimeout is pending
Tick ==
  /\ pc = "rta"
  /\ sleeping
  /\ timer > 0
  /\ LET d == Min(TickMs, timer) IN
       /\ timer' = timer - d
       /\ sinceAction' = IF \E i \in DOMAIN log : log[i] = "complete"
                           THEN Min(SETTLE_MS, sinceAction + d)
                           ELSE sinceAction
  /\ Stay
  /\ UNCHANGED << genVars, sideVars, prog, acc, snap, thrown, optsReload, step, browser,
                  report, reportFile, pending, sleeping, tracing, tlog, log,
                  blankRes, loc, strat >>

-----------------------------------------------------------------------------
(* Page operations *)

\* what an operation can settle to were every page like the site's pages
OutcomesAnyPage(p, k, l) ==
  CASE k \in {"goto", "waitNav", "type", "evaluate"} -> {"ok", "rejected"}
    [] k = "typeIf" -> {"found", "notfound"}
    [] k = "click" -> IF p = "full" THEN {"found", "notfound", "rejected"}
                                   ELSE {"found", "rejected"}
    [] k = "query" -> {"found", "notfound", "rejected"}

\* what an operation of kind k can settle to while the page shows l:
\* "found"/"notfound" fulfil with true/false (null for page.$), "ok" fulfils,
\* "rejected" rejects.  about:blank has no element to click, type into or query
Outcomes(p, k, l) ==
  CASE k = "goto" -> {"ok", "rejected"}
    [] k = "waitNav" -> {"ok", "rejected"}
    [] k = "click" ->
         IF p = "full"
           THEN IF l = "blank" THEN {"notfound"}
                               ELSE {"found", "notfound", "rejected"}
           ELSE IF l = "blank" THEN {"rejected"} ELSE {"found", "rejected"}
    [] k = "typeIf" -> IF l = "blank" THEN {"notfound"}
                                      ELSE {"found", "notfound"}
    [] k = "type" -> IF l = "blank" THEN {"rejected"} ELSE {"ok", "rejected"}
    [] k = "evaluate" -> IF l = "blank" THEN {"ok"} ELSE {"ok", "rejected"}
    [] k = "query" -> IF l = "blank" THEN {"notfound"}
                                     ELSE {"found", "notfound", "rejected"}

Fulfilled(o) == o \in {"ok", "found", "notfound"}

\* JavaScript truthiness of the action function's local
Truthy(v) == v \in {"true", "promise"}

GuardHolds(g, v) ==
  CASE g = "always" -> TRUE
    [] g = "ifFalsy" -> ~Truthy(v)
    [] g = "ifTruthy" -> Truthy(v)

IsStrategy(k) == k \in {"click", "goto", "evaluate"}

\* all strategies issued so far in this action have settled without success
PrevAllFailed ==
  \A i \in DOMAIN strat : strat[i].res \in {"notfound", "rejected"}

Issued(name) == [name |-> name, res |-> "pending", afterFail |-> PrevAllFailed]

SetRes(l, o) ==
  [i \in DOMAIN strat |->
     IF l[1] = step /\ strat[i].name = l[3] /\ strat[i].res = "pending"
       THEN [strat[i] EXCEPT !.res = o] ELSE strat[i]]

-----------------------------------------------------------------------------
(* recordTraceAround *)

\* if (opts.reload) { try { await page.goto('about:blank', ...) } catch {} }
BlankReset ==
  /\ Running /\ Stmt = "blank"
  /\ IF optsReload
       THEN /\ pending' = pending \cup {Lab("goto", "blank")}
            /\ blankRes' = "issued"
            /\ Ctl(pc, err, exitCode, rs, ai, inHandler, clicked,
                   {Lab("goto", "blank")}, "one")
       ELSE /\ pending' = pending
            /\ blankRes' = blankRes
            /\ NextStmt
  /\ UNCHANGED << genVars, sideVars, prog, acc, snap, thrown, optsReload, step, browser,
                  report, reportFile, timer, sleeping, tracing, histVars,
                  loc >>

\* a blank reset without its try/catch
BlankUncaught == FALSE

\* the try/catch around the about:blank navigation swallows its rejection
BlankCaught == TRUE

\* await page.tracing.start({ categories }); rejects while a capture is active
TracingStart ==
  /\ Running /\ Stmt = "start"
  /\ tlog' = Append(tlog, "start")
  /\ log' = Append(log, "start")
  /\ \E ok \in BOOLEAN :
       IF ok /\ ~tracing
         THEN tracing' = TRUE /\ NextStmt
         ELSE tracing' = tracing /\ Propagate
  /\ UNCHANGED << genVars, sideVars, prog, acc, snap, optsReload, step, browser, report,
                  reportFile, pending, timer, sleeping, sinceAction, blankRes,
                  loc, strat >>
  /\ Cause("tracingStart")

\* await actionFn(): the action function is entered
ActionInvoke ==
  /\ Running /\ Stmt = "action" /\ ai = 0
  /\ log' = Append(log, "invoke")
  /\ Ctl(pc, err, exitCode, rs, 1, FALSE, clicked, {}, "none")
  /\ UNCHANGED << genVars, sideVars, prog, acc, snap, thrown, optsReload, step, browser,
                  report, reportFile, pending, timer, sleeping, tracing, tlog,
                  sinceAction, blankRes, loc, strat >>

\* the action function returns and await actionFn() resumes
ActionReturn ==
  /\ Running /\ Stmt = "action" /\ ai > Len(Code)
  /\ log' = Append(log, "complete")
  /\ sinceAction' = 0
  /\ NextStmt
  /\ UNCHANGED << genVars, sideVars, prog, acc, snap, thrown, optsReload, step, browser,
                  report, reportFile, pending, timer, sleeping, tracing, tlog,
                  blankRes, loc, strat >>

\* await new Promise(r => setTimeout(r, 2500)): the timer is armed
SettleStart ==
  /\ Running /\ Stmt = "settle"
  /\ sleeping' = TRUE
  /\ timer' = SETTLE_MS
  /\ Stay
  /\ UNCHANGED << genVars, sideVars, prog, acc, snap, thrown, optsReload, step, browser,
                  report, reportFile, pending, tracing, histVars, blankRes,
                  loc >>

\* a timer promise that is not awaited
TimerNotAwaited(t) == TRUE

\* the promise of setTimeout(r, ms) resolves once ms have elapsed
TimerFired(t) == t = 0

\* the settle timer fires
SettleDone ==
  /\ pc = "rta" /\ Stmt = "settle" /\ sleeping /\ TimerFired(timer)
  /\ sleeping' = FALSE
  /\ log' = Append(log, "settle")
  /\ NextStmt
  /\ UNCHANGED << genVars, sideVars, prog, acc, snap, thrown, optsReload, step, browser,
                  report, reportFile, pending, timer, tracing, tlog,
                  sinceAction, blankRes, loc, strat >>

\* enhanced: const metrics = await getPerformanceMetrics(page)
Metrics ==
  /\ Running /\ Stmt = "metrics"
  /\ \E ok \in BOOLEAN :
       IF ok THEN log' = Append(log, "snapshot") /\ NextStmt
             ELSE log' = log /\ Propagate
  /\ UNCHANGED << genVars, sideVars, prog, acc, optsReload, step, browser, report,
                  reportFile, pending, timer, sleeping, tracing, tlog,
                  sinceAction, blankRes, loc, strat >>
  /\ snap' = IF log' # log THEN acc ELSE snap
  /\ Cause("metrics")

\* enhanced: await fs.writeFile(metricsPath, JSON.stringify(metrics))
WriteMetrics ==
  /\ Running /\ Stmt = "writeMetrics"
  /\ \E ok \in BOOLEAN : IF ok THEN NextStmt ELSE Propagate
  /\ UNCHANGED << genVars, sideVars, prog, acc, snap, optsReload, step, browser, report,
                  reportFile, pending, timer, sleeping, tracing, histVars,
                  blankRes, loc >>
  /\ Cause("writeMetrics")

\* const buffer = await page.tracing.stop(); a rejected stop may or may not
\* have ended the capture
TracingStop ==
  /\ Running /\ Stmt = "stop"
  /\ tlog' = Append(tlog, "stop")
  /\ log' = Append(log, "stop")
  /\ \E ok \in BOOLEAN :
       IF ok THEN tracing' = FALSE /\ NextStmt
             ELSE tracing' \in BOOLEAN /\ Propagate
  /\ UNCHANGED << genVars, sideVars, prog, acc, snap, optsReload, step, browser, report,
                  reportFile, pending, timer, sleeping, sinceAction, blankRes,
                  loc, strat >>
  /\ Cause("tracingStop")

\* full: const parsed = await parseRawTraceBuffer(buffer); summary = ...
Parse ==
  /\ Running /\ Stmt = "parse"
  /\ log' = Append(log, "decode")
  /\ NextStmt
  /\ UNCHANGED << genVars, sideVars, prog, acc, snap, thrown, optsReload, step, browser,
                  report, reportFile, pending, timer, sleeping, tracing, tlog,
                  sinceAction, blankRes, loc, strat >>

\* full: await save(fname, summary) / enhanced: await fs.writeFile(outPath, buffer)
Persist ==
  /\ Running /\ Stmt \in {"save", "writeTrace"}
  /\ \E ok \in BOOLEAN :
       IF ok THEN log' = Append(log, "persist") /\ NextStmt
             ELSE log' = log /\ Propagate
  /\ UNCHANGED << genVars, sideVars, prog, acc, snap, optsReload, step, browser, report,
                  reportFile, pending, timer, sleeping, tracing, tlog,
                  sinceAction, blankRes, loc, strat >>
  /\ Cause("persist")

\* return { parsed, summary, file } / { path, metricsPath, metrics }
Return ==
  /\ Running /\ Stmt = "ret"
  /\ log' = Append(log, "result")
  /\ Ctl("push", err, exitCode, rs, ai, inHandler, clicked, {}, "none")
  /\ UNCHANGED << genVars, sideVars, prog, acc, snap, thrown, optsReload, step, browser,
                  report, reportFile, pending, timer, sleeping, tracing, tlog,
                  sinceAction, blankRes, loc, strat >>

-----------------------------------------------------------------------------
(* The action functions *)

Cur == Code[ai]

InAction == Running /\ Stmt = "action" /\ ai >= 1 /\ ai <= Len(Code)

actFrame == << genVars, sideVars, prog, acc, snap, thrown, optsReload, step, browser,
               report, reportFile, tracing, tlog, log, sinceAction, blankRes,
               loc >>

\* an `if` or `||` whose condition rules the instruction out
SkipIns ==
  /\ InAction
  /\ ~GuardHolds(Cur.guard, clicked)
  /\ Advance(clicked)
  /\ UNCHANGED << actFrame, pending, timer, sleeping, strat >>

\* await <one page operation>
IssueOne ==
  /\ InAction
  /\ GuardHolds(Cur.guard, clicked)
  /\ Cur.op \in {"goto", "click", "typeIf", "type", "evaluate", "query",
                 "waitNav"}
  /\ Cur.awaited
  /\ pending' = pending \cup {Lab(Cur.op, Cur.name)}
  /\ strat' = IF IsStrategy(Cur.op) THEN Append(strat, Issued(Cur.name))
                                    ELSE strat
  /\ Ctl(pc, err, exitCode, rs, ai, inHandler, clicked,
         {Lab(Cur.op, Cur.name)}, "one")
  /\ UNCHANGED << actFrame, timer, sleeping >>

\* `await a || clickByText(...)`: the right operand is called and its promise,
\* not its result, becomes the value of the expression
IssueDetached ==
  /\ InAction
  /\ GuardHolds(Cur.guard, clicked)
  /\ Cur.op = "click"
  /\ ~Cur.awaited
  /\ pending' = pending \cup {Lab("click", Cur.name)}
  /\ strat' = Append(strat, Issued(Cur.name))
  /\ Advance("promise")
  /\ UNCHANGED << actFrame, timer, sleeping >>

\* await Promise.race([page.click(...), page.goto(...)])
IssueRace ==
  /\ InAction
  /\ GuardHolds(Cur.guard, clicked)
  /\ Cur.op = "race"
  /\ pending' = pending \cup {Lab("click", "c1"), Lab("goto", "fb")}
  /\ strat' = Append(Append(strat, Issued("c1")),
                     [name |-> "fb", res |-> "pending", afterFail |-> FALSE])
  /\ Ctl(pc, err, exitCode, rs, ai, inHandler, clicked,
         {Lab("click", "c1"), Lab("goto", "fb")}, "race")
  /\ UNCHANGED << actFrame, timer, sleeping >>

\* await Promise.all([page.waitForNavigation(...), <click>])
IssueAll ==
  /\ InAction
  /\ GuardHolds(Cur.guard, clicked)
  /\ Cur.op = "all"
  /\ pending' = pending \cup {Lab("waitNav", "nav"), Lab("click", "c1")}
  /\ strat' = Append(strat, Issued("c1"))
  /\ Ctl(pc, err, exitCode, rs, ai, inHandler, clicked,
         {Lab("waitNav", "nav"), Lab("click", "c1")}, "all")
  /\ UNCHANGED << actFrame, timer, sleeping >>

\* await new Promise(r => setTimeout(r, 1000)) / await sleep(1000)
SleepStart ==
  /\ InAction
  /\ Cur.op = "sleep"
  /\ sleeping' = TRUE
  /\ timer' = ACTION_SLEEP_MS
  /\ Stay
  /\ UNCHANGED << actFrame, pending, strat >>

SleepDone ==
  /\ pc = "rta" /\ Stmt = "action" /\ sleeping /\ TimerFired(timer)
  /\ sleeping' = FALSE
  /\ Advance(clicked)
  /\ UNCHANGED << actFrame, pending, timer, strat >>

\* value assigned to the local by a fulfilled operation
NewLocal(op, o) ==
  IF op \in {"click", "query"}
    THEN IF o = "found" THEN "true" ELSE "false"
    ELSE clicked

\* the awaited operation l of the action function settled with o
Resume(l, o) ==
  CASE waitMode = "one" ->
         IF Fulfilled(o) THEN Advance(NewLocal(Cur.op, o))
         ELSE IF Cur.caught THEN Advance(clicked)
         ELSE ActThrow
    [] waitMode = "race" ->
         IF Fulfilled(o) THEN Advance(clicked) ELSE ActThrow
    [] waitMode = "all" ->
         IF ~Fulfilled(o) THEN ActThrow
         ELSE IF waiting \ {l} = {} THEN Advance(clicked)
         ELSE Ctl(pc, err, exitCode, rs, ai, inHandler, clicked,
                  waiting \ {l}, "all")

\* the accumulators after operation l settled with o. The observers are
\* installed by evaluateOnNewDocument, so they start afresh in every new
\* document and in no other way: a navigation that commits replaces them by
\* what the new document's load produces, an interaction with the current
\* document adds to what they hold.
Observed(l, o) ==
  IF prog # "enhanced" THEN {acc}
  ELSE IF l[2] = "goto" /\ o = "ok"
    THEN {IF l[3] = "blank" THEN {} ELSE {step}}
  ELSE IF l[2] = "click" /\ o = "found"
    THEN {{step}}
  ELSE IF l[2] = "type" /\ o = "ok"
    THEN {acc \cup {step}}
  ELSE {acc}

\* a page operation settles
Settle ==
  /\ pc # "exited"
  /\ \E l \in pending : \E o \in Outcomes(prog, l[2], loc) :
       /\ loc' = IF l[2] = "goto" /\ o = "ok"
                   THEN IF l[3] = "blank" THEN "blank" ELSE "site"
                   ELSE loc
       /\ strat' = SetRes(l, o)
       /\ acc' \in Observed(l, o)
       /\ IF l \in waiting /\ Stmt = "blank"
            THEN /\ blankRes' = IF o = "ok" THEN "ok" ELSE "failed"
                 /\ IF o = "ok" \/ BlankCaught THEN NextStmt ELSE Propagate
          ELSE IF l \in waiting
            THEN /\ blankRes' = blankRes
                 /\ Resume(l, o)
          ELSE /\ blankRes' = blankRes
               \* nobody handles the promise of a detached clickByText:
               \* its rejection ends the process
               /\ IF prog = "full" /\ o = "rejected"
                    THEN Ctl("exited", err, 1, rs, ai, inHandler, clicked,
                             waiting, waitMode)
                    ELSE Stay
       \* an abandoned waitForNavigation has no further effect
       /\ pending' = {x \in pending \ {l} : IsPageAction(x) \/ x \in waiting'}
       /\ Cause(IF l \notin waiting THEN "unhandled"
                ELSE IF Stmt = "blank" THEN "blank" ELSE "action")
  /\ UNCHANGED << genVars, sideVars, prog, snap, optsReload, step, browser, report,
                  reportFile, timer, sleeping, tracing, tlog, log,
                  sinceAction >>

-----------------------------------------------------------------------------
Next ==
  \/ EnsureOut \/ Launch \/ Setup \/ CallStep \/ Push \/ WriteReport
  \/ Close \/ Finally \/ Tick
  \/ BlankReset \/ TracingStart \/ ActionInvoke \/ ActionReturn
  \/ SettleStart \/ SettleDone \/ Metrics \/ WriteMetrics \/ TracingStop
  \/ Parse \/ Persist \/ Return
  \/ SkipIns \/ IssueOne \/ IssueDetached \/ IssueRace \/ IssueAll
  \/ SleepStart \/ SleepDone \/ Settle

Spec == Init /\ [][Next]_vars

\* recordTraceAround called with either value of opts.reload
InitOpts ==
  /\ prog \in Progs
  /\ optsReload \in BOOLEAN
  /\ pc = "ensureOut"
  /\ step = 0
  /\ err = FALSE
  /\ exitCode = -1
  /\ browser = "none"
  /\ report = << >>
  /\ reportFile = << >>
  /\ rs = 0
  /\ ai = 0
  /\ inHandler = FALSE
  /\ clicked = "undef"
  /\ waiting = {}
  /\ waitMode = "none"
  /\ pending = {}
  /\ timer = 0
  /\ sleeping = FALSE
  /\ tracing = FALSE
  /\ tlog = << >>
  /\ log = << >>
  /\ sinceAction = 0
  /\ blankRes = "none"
  /\ loc = "blank"
  /\ strat = << >>
  /\ acc = {}
  /\ snap = {}
  /\ thrown = "none"
  /\ GenIdle
  /\ SideIdle

SpecOpts == InitOpts /\ [][Next]_vars

TypeOK ==
  /\ prog \in Progs
  /\ optsReload \in BOOLEAN
  /\ pc \in {"ensureOut", "launch", "setup", "call", "rta", "push", "report",
             "close", "finally", "exited"}
  /\ step \in 0..NumSteps
  /\ exitCode \in {-1, 0, 1}
  /\ browser \in {"none", "open", "closed", "closeFailed"}
  /\ Len(report) <= NumSteps
  /\ timer \in 0..SETTLE_MS
  /\ sinceAction \in 0..SETTLE_MS
  /\ waiting \subseteq pending
  /\ clicked \in {"undef", "true", "false", "promise"}
  /\ thrown \in {"none", "ensureOut", "launch", "setup", "writeReport",
                 "close", "tracingStart", "metrics", "writeMetrics",
                 "tracingStop", "persist", "blank", "action", "unhandled"}

-----------------------------------------------------------------------------
(* The MCP-driven scenario (prog = "mcp"): performanceTest sends JSON-RPC     *)
(* requests to the MCP server on localhost:3000, one at a time.              *)

MCP_SLEEP_MS == 2000
MCP_LOGIN_SLEEP_MS == 3000

McpKeys == << "homepage", "sign_in", "login", "fish_category",
              "product_details", "add_to_cart", "view_cart", "checkout",
              "logout" >>

Req(m) == [op |-> "req", name |-> m, ms |-> 0]
McpSleep(t) == [op |-> "sleep", name |-> "sleep", ms |-> t]

\* a step that navigates and then records
McpNavStep ==
  << Req("pages_navigate"), Req("performance_start_trace"),
     McpSleep(MCP_SLEEP_MS), Req("performance_stop_trace"),
     Req("performance_get_metrics") >>

\* a step that starts the recording and then clicks
McpClickStep ==
  << Req("performance_start_trace"), Req("input_click"),
     McpSleep(MCP_SLEEP_MS), Req("performance_stop_trace"),
     Req("performance_get_metrics") >>

McpLoginStep ==
  << Req("input_type"), Req("input_type"), Req("performance_start_trace"),
     Req("input_click"), McpSleep(MCP_LOGIN_SLEEP_MS),
     Req("performance_stop_trace"), Req("performance_get_metrics") >>

\* the awaited statements of step k of performanceTest, before its push
McpBody(k) ==
  CASE k \in {1, 2, 4, 7} -> McpNavStep
    [] k = 3 -> McpLoginStep
    [] OTHER -> McpClickStep

McpCur == McpBody(step)[ai]

McpRunning == prog = "mcp" /\ pc = "mcp" /\ waiting = {} /\ ~sleeping

\* variables performanceTest has no counterpart for
mcpFrame == << genVars, sideVars, prog, acc, snap, optsReload, err, browser, rs,
               inHandler, clicked, waitMode, tracing, tlog, sinceAction,
               blankRes, loc, strat >>

\* the process leaves through catch (error) { process.exit(1) }
McpExit(c) ==
  /\ pc' = "exited"
  /\ exitCode' = 1
  /\ thrown' = c

\* await ensureOut(); const report = []
McpEnsureOut ==
  /\ prog = "mcp" /\ pc = "ensureOut"
  /\ \E ok \in BOOLEAN :
       IF ok THEN /\ pc' = "mcp" /\ step' = 1 /\ ai' = 1
                  /\ UNCHANGED << exitCode, thrown >>
             ELSE /\ McpExit("ensureOut")
                  /\ UNCHANGED << step, ai >>
  /\ UNCHANGED << mcpFrame, report, reportFile, waiting, pending, timer,
                  sleeping, log >>

\* sendMcpRequest(method, params): req.write(data); req.end(); the promise
\* settles on the response's 'end' or on the request's 'error', and on
\* nothing else
McpSend ==
  /\ McpRunning /\ ai <= Len(McpBody(step)) /\ McpCur.op = "req"
  /\ waiting' = {Lab("req", McpCur.name)}
  /\ pending' = pending \cup {Lab("req", McpCur.name)}
  /\ log' = Append(log, McpCur.name)
  /\ UNCHANGED << mcpFrame, pc, step, exitCode, thrown, report, reportFile,
                  ai, timer, sleeping >>

\* the server answers (res 'end', body parsed) or the request errors (socket
\* error, body that is not JSON)
McpRespond ==
  /\ prog = "mcp" /\ pc = "mcp"
  /\ \E l \in waiting : \E o \in {"ok", "rejected"} :
       /\ waiting' = {}
       /\ pending' = pending \ {l}
       /\ IF o = "ok"
            THEN /\ ai' = ai + 1
                 /\ log' = Append(log, "response")
                 /\ UNCHANGED << pc, exitCode, thrown >>
            ELSE /\ McpExit("request")
                 /\ UNCHANGED << ai, log >>
  /\ UNCHANGED << mcpFrame, step, report, reportFile, timer, sleeping >>

\* await sleep(ms): the timer is armed
McpSleepStart ==
  /\ McpRunning /\ ai <= Len(McpBody(step)) /\ McpCur.op = "sleep"
  /\ sleeping' = TRUE
  /\ timer' = McpCur.ms
  /\ UNCHANGED << mcpFrame, pc, step, exitCode, thrown, report, reportFile,
                  ai, waiting, pending, log >>

McpTick ==
  /\ prog = "mcp" /\ pc = "mcp" /\ sleeping /\ timer > 0
  /\ timer' = timer - Min(TickMs, timer)
  /\ UNCHANGED << mcpFrame, pc, step, exitCode, thrown, report, reportFile,
                  ai, waiting, pending, sleeping, log >>

McpSleepDone ==
  /\ prog = "mcp" /\ pc = "mcp" /\ sleeping /\ TimerFired(timer)
  /\ sleeping' = FALSE
  /\ ai' = ai + 1
  /\ log' = Append(log, "sleep")
  /\ UNCHANGED << mcpFrame, pc, step, exitCode, thrown, report, reportFile,
                  waiting, pending, timer >>

\* report.push({ step, metrics, trace }), then the next step or the report
McpPush ==
  /\ McpRunning /\ ai > Len(McpBody(step))
  /\ report' = Append(report, [step |-> McpKeys[step], error |-> ResultError])
  /\ IF step < Len(McpKeys)
       THEN step' = step + 1 /\ ai' = 1 /\ pc' = pc /\ log' = << >>
       ELSE step' = step /\ ai' = ai /\ pc' = "report" /\ log' = log
  /\ UNCHANGED << mcpFrame, exitCode, thrown, reportFile, waiting, pending,
                  timer, sleeping >>

\* await fs.writeFile(reportPath, ...); return report: nothing is left to
\* run and the process ends with status 0
McpWriteReport ==
  /\ prog = "mcp" /\ pc = "report"
  /\ \E ok \in BOOLEAN :
       IF ok THEN /\ reportFile' = << report >>
                  /\ pc' = "exited" /\ exitCode' = 0 /\ thrown' = thrown
             ELSE /\ reportFile' = reportFile
                  /\ McpExit("writeReport")
  /\ UNCHANGED << mcpFrame, step, report, ai, waiting, pending, timer,
                  sleeping, log >>

NextMcp ==
  \/ McpEnsureOut \/ McpSend \/ McpRespond \/ McpSleepStart \/ McpTick
  \/ McpSleepDone \/ McpPush \/ McpWriteReport

InitMcp ==
  /\ prog = "mcp"
  /\ optsReload = CallerReload
  /\ pc = "ensureOut"
  /\ step = 0
  /\ err = FALSE
  /\ exitCode = -1
  /\ browser = "none"
  /\ report = << >>
  /\ reportFile = << >>
  /\ rs = 0
  /\ ai = 0
  /\ inHandler = FALSE
  /\ clicked = "undef"
  /\ waiting = {}
  /\ waitMode = "none"
  /\ pending = {}
  /\ timer = 0
  /\ sleeping = FALSE
  /\ tracing = FALSE
  /\ tlog = << >>
  /\ log = << >>
  /\ sinceAction = 0
  /\ blankRes = "none"
  /\ loc = "blank"
  /\ strat = << >>
  /\ acc = {}
  /\ snap = {}
  /\ thrown = "none"
  /\ GenIdle
  /\ SideIdle

SpecMcp == InitMcp /\ [][NextMcp]_vars

\* the script's own steps and its timers are taken when they can be; the MCP
\* server is under no obligation to answer
FairMcp ==
  /\ SpecMcp
  /\ WF_vars(McpEnsureOut) /\ WF_vars(McpSend) /\ WF_vars(McpSleepStart)
  /\ WF_vars(McpTick) /\ WF_vars(McpSleepDone) /\ WF_vars(McpPush)
  /\ WF_vars(McpWriteReport)

-----------------------------------------------------------------------------
(* Properties *)

InLog(e) == \E i \in DOMAIN log : log[i] = e

Exited == pc = "exited"

\* C1: when a step's action function fails after tracing.start, tracing.stop
\* is still called for that step and a step result is still returned: the
\* process never ends with a step whose action was entered but did not
\* complete, its capture un-stopped or its result missing.
C1_StopAfterFailedAction ==
  (Exited /\ InLog("invoke") /\ ~InLog("complete"))
    => (InLog("stop") /\ InLog("result") /\ ~tracing)

\* C2: whatever the outcome of step k, the runner goes on to start step
\* k+1: a process that entered a step's action never ends before the last
\* step has been started.
C2_EveryStepStarted ==
  (Exited /\ InLog("invoke")) => step = NumSteps

\* C3: every run that launched the browser and attempted a step writes the
\* aggregate report, with one entry per attempted step.
C3_ReportAlwaysWritten ==
  (Exited /\ browser # "none" /\ InLog("invoke"))
    => (reportFile # << >> /\ Len(reportFile[1]) = step)

\* C4: whenever the aggregate report is written it has 9 step entries,
\* whichever steps failed.
C4_ReportHasNineEntries ==
  reportFile # << >> => Len(reportFile[1]) = 9

\* a report was written by a run whose last step found no click target
C4_Witness ==
  /\ reportFile # << >>
  /\ \E i \in DOMAIN strat : strat[i].res \in {"notfound", "rejected"}

\* C5: at most one page action issued by the scenario is in flight, and none
\* issued inside a step is still pending once its action function returned.
C5_OneActionInFlight ==
  /\ Cardinality(inflight) <= 1
  /\ InLog("complete") => {l \in inflight : l[1] = step} = {}

Alternates(calls) ==
  \A i \in DOMAIN calls : calls[i] = IF i % 2 = 1 THEN "start" ELSE "stop"

\* C6: over a whole run tracing.start and tracing.stop strictly alternate,
\* beginning with start; tracing.start is never reached while a capture is
\* active; a step's recordTraceAround begins only after the previous step's
\* has returned (its result pushed, its capture stopped).
C6_TracingAlternates ==
  /\ Alternates(tlog)
  /\ pc = "rta" => Len(report) = step - 1
  /\ (pc = "rta" /\ Stmt \in {"blank", "start"})
       => (~tracing /\ Len(tlog) = 2 * (step - 1))

\* the second step traces after the first capture was stopped
C6_Witness ==
  step = 2 /\ tracing /\ tlog = << "start", "stop", "start" >>

Canon == << "start", "invoke", "complete", "settle", "snapshot", "stop",
            "decode", "persist", "result" >>

Rank(e) == CHOOSE i \in DOMAIN Canon : Canon[i] = e

C8_SettleDelayHonored ==
  (InLog("snapshot") \/ InLog("stop") \/ Stmt \in {"metrics", "stop"})
    => sinceAction >= SETTLE_MS

\* tracing.stop was called after a completed action
C8_Witness ==
  InLog("complete") /\ InLog("stop")

\* C9: with reload true the about:blank navigation is issued and has settled
\* before tracing.start, and its failure leads to tracing.start all the same;
\* with reload not true no blank navigation is issued.
C9_BlankBeforeStart ==
  /\ [](/\ (optsReload /\ InLog("start")) => blankRes \in {"ok", "failed"}
        /\ (optsReload /\ Stmt = "start") => blankRes \in {"ok", "failed"}
        /\ ~optsReload => blankRes = "none")
  /\ [][(blankRes = "issued" /\ blankRes' = "failed")
          => (pc' = "rta" /\ RtaStmts(prog)[rs'] = "start")]_vars

\* tracing started after a failed blank reset
C9_Witness ==
  optsReload /\ blankRes = "failed" /\ InLog("start") /\ tracing

\* the strategies a step declares, in source order
Strategies(p, k) ==
  SelectSeq(Body(p, k), LAMBDA ins : IsStrategy(ins.op))

Attempted(name) == \E i \in DOMAIN strat : strat[i].name = name

NotFound(name) ==
  \E i \in DOMAIN strat : strat[i].name = name /\ strat[i].res = "notfound"

FallbackSteps == {2, 4, 7, 9}

\* C10: in the steps with a direct-navigation fallback the strategies are
\* attempted in declared order, each only after the previous one failed, and
\* when every click strategy finds no target the fallback navigation is
\* attempted.
C10_FallbackAttempted ==
  (prog = "full" /\ step \in FallbackSteps /\ InLog("complete")) =>
    LET S == Strategies(prog, step) IN
      /\ \A i \in DOMAIN strat : strat[i].afterFail
      /\ \A i \in DOMAIN S :
           (\A j \in 1..(i - 1) : NotFound(S[j].name)) => Attempted(S[i].name)

\* C11: no step's action function ever rejects or throws into its caller:
\* recordTraceAround's `await actionFn()` never raises, so the run never fails
\* because of an exception that left an action function.
C11_ActionNeverThrows ==
  thrown # "action"

\* a strategy of the current step was attempted and failed
StratFailed ==
  \E i \in DOMAIN strat : strat[i].res \in {"notfound", "rejected"}

\* C12: whenever an action attempt or a fallback of a step failed, the step
\* result appended to the report carries a non-null structured error.
C12_FailureRecorded ==
  (pc \in {"call", "report"} /\ step >= 1 /\ Len(report) = step
     /\ StratFailed)
    => report[step].error # "none"

\* failures confined to a step's action: an exception leaving the action
\* function, or the rejection of an operation it left behind
StepConfined == {"action", "unhandled"}

\* C13: the process exits non-zero only for infrastructure failures (browser
\* launch, output directory, artifacts); a failure confined to a step's
\* action never makes the exit status non-zero.
C13_StepFailureExitsZero ==
  (Exited /\ exitCode # 0) => thrown \notin StepConfined

\* C14: the report list is at every moment a prefix of the script's fixed
\* step sequence, in execution order (so no step appears twice), and it only
\* grows by appending: entries already present are never changed or removed.
C14_ReportIsPrefix ==
  /\ [](/\ Len(report) <= NumSteps
        /\ \A i \in DOMAIN report : report[i].step = StepKeys(prog)[i])
  /\ [][/\ Len(report') >= Len(report)
        /\ SubSeq(report', 1, Len(report)) = report]_vars

\* a run in its fourth step with the first three results in the report
C14_Witness ==
  Len(report) = 3 /\ pc = "rta" /\ step = 4

\* C15: every step terminates: a wait for a page or server that never
\* responds is ended by a timeout, so that with fair timers every run
\* eventually reaches its terminal state.
C15_EveryRunTerminates ==
  <>Exited

\* C16: the accumulators sampled at the end of step k hold only observations
\* made during step k, also when the about:blank reset failed or the action
\* performed no navigation.
C16_OnlyThisStep ==
  InLog("snapshot") => snap \subseteq {step}

\* C17: a trace that is empty, truncated or malformed never makes decoding
\* throw, and report generation over that trace does not abort.
C17_BadTraceTolerated ==
  (gen = "docx" /\ cur.file \in {"empty", "malformed"}) => gpc # "aborted"

\* C18: when the metrics or trace artifact of one step is missing, report
\* generation goes on and the step is rendered with an error note.
C18_MissingArtifactTolerated ==
  cur.file = "missing"
    => /\ gpc # "aborted"
       /\ out # << >>
       /\ out[Len(out)] = [step |-> Len(out), kind |-> "error"]

Vitals == {"lcp", "cls", "inp", "ttfb", "tbt"}

\* the vital v as the step's metrics m hold it, Absent when the signal is not
\* there
Vital(g, m, v) ==
  IF g = "mcp" THEN m[v]
  ELSE CASE v = "lcp" -> m.lcp
         [] v = "cls" -> m.cls
         [] v = "inp" -> m.inp
         [] v = "ttfb" -> IF m.nav.has /\ IsNum(m.nav.requestStart)
                            THEN m.nav.responseStart - m.nav.requestStart
                            ELSE Absent
         [] v = "tbt" -> IF m.lt.has THEN TBT(m.lt.tasks) ELSE Absent

\* sec is what the generator rendered from the readable metrics cur.m
Rendered ==
  gen \in {"md", "html", "enh", "mcp"} /\ cur.file = "ok" /\ out # << >>

\* C19: a vital that is absent from a step's metrics is reported as
\* null / 'N/A' and never as 0, and an absent LCP or CLS is not analysed as 0.
C19_AbsentNeverZero ==
  Rendered =>
    \A v \in Vitals :
      Vital(gen, cur.m, v) = Absent
        => /\ sec.shown[v] # 0
           /\ v \in {"lcp", "cls"} => sec.analysed[v] # 0

Threshold(v) ==
  CASE v = "lcp" -> LCP_MAX
    [] v = "cls" -> CLS_MAX
    [] v = "ttfb" -> TTFB_MAX
    [] v = "tbt" -> TBT_MAX

\* the vital is present and strictly above its threshold
Exceeds(v) ==
  IsNum(Vital(gen, cur.m, v)) /\ Vital(gen, cur.m, v) > Threshold(v)

\* the vitals a generator has a flag for
Flagged(g) ==
  IF g \in {"md", "enh"} THEN {"lcp", "cls", "tbt"}
  ELSE {"lcp", "cls", "ttfb", "tbt"}

\* C20: a step is flagged for a vital exactly when the vital is present and
\* strictly above its threshold, in the per-step detail and in the status of
\* the summary table: equal to the threshold or absent is never flagged.
C20_FlagIffExceeds ==
  Rendered =>
    /\ \A v \in sec.flags : Exceeds(v)
    /\ \A v \in Flagged(gen) : Exceeds(v) => v \in sec.flags
    /\ sec.rowWarn => \E v \in Flagged(gen) : Exceeds(v)

\* the blocking portion of one task: what exceeds the 50 ms budget
Blocking(d) == IF d - 50 > 0 THEN d - 50 ELSE 0

\* sum of Blocking over the first n tasks
RECURSIVE BlockingSum(_, _)
BlockingSum(tasks, n) ==
  IF n = 0 THEN 0 ELSE BlockingSum(tasks, n - 1) + Blocking(tasks[n])

\* C21: the Total Blocking Time a generator computes for a step is the sum
\* over the step's long tasks of max(0, duration - 50), the same in every
\* generator: a task of at most 50 ms adds 0, a task of 120 ms adds 70.
C21_TbtIsBlockingSum ==
  (Rendered /\ gen \in {"md", "html", "enh"} /\ cur.m.lt.has
     /\ sec.analysed.tbt # Absent)
    => sec.analysed.tbt = BlockingSum(cur.m.lt.tasks, Len(cur.m.lt.tasks))

\* one long task of 120 ms analysed as 70 ms of blocking time
C21_Witness ==
  /\ Rendered /\ gen = "enh"
  /\ cur.m.lt.tasks = << 120 >>
  /\ sec.analysed.tbt = 70

\* C22: the TTFB a report gives for a step is responseStart - requestStart
\* of the navigation timing when requestStart is there, and no number at all
\* (null, 'N/A' or no line) when requestStart is missing or the step has no
\* navigation timing.
C22_TtfbFromNavigation ==
  (Rendered /\ gen \in {"md", "html"})
    => IF Vital(gen, cur.m, "ttfb") = Absent
         THEN sec.shown.ttfb \in {Absent, NA, Omitted}
         ELSE sec.shown.ttfb = Vital(gen, cur.m, "ttfb")


\* the entries of a delivery history that count towards CLS
Counted(hist) == SelectSeq(hist, LAMBDA e : ~e.hadRecentInput)

\* the sum of the values of entries 1..n of a sequence
RECURSIVE ValueSum(_, _)
ValueSum(hist, n) ==
  IF n = 0 THEN 0 ELSE ValueSum(hist, n - 1) + hist[n].value

\* C23: whatever the batching and order of the delivered layout-shift
\* entries, the published CLS is the sum of the values of the entries whose
\* hadRecentInput is false, and a delivery that adds only hadRecentInput
\* entries leaves the accumulated value unchanged.
C23_ClsIsSumOfUninputShifts ==
  /\ [](winCLS # Absent =>
         /\ winCLS = ValueSum(Counted(shifts), Len(Counted(shifts)))
         /\ winCLS = clsValue)
  /\ [][(shifts # << >> /\ Counted(shifts') = Counted(shifts))
          => clsValue' = clsValue]_vars

C23_Witness ==
  /\ Len(shifts) = 3
  /\ shifts[1] = [value |-> 10, hadRecentInput |-> FALSE]
  /\ shifts[2] = [value |-> 60, hadRecentInput |-> TRUE]
  /\ shifts[3] = [value |-> 60, hadRecentInput |-> FALSE]
  /\ winCLS = 70

\* C24: every renderer emits its per-step sections in the order of the
\* entries of the report file, and the list of resources keeps the observed
\* order while the report is rendered: the top-N list is a sorted copy.
C24_RenderingKeepsInputOrder ==
  /\ [](\A i \in DOMAIN out : out[i].step = i)
  /\ [][resources # << >> => resources' = resources]_vars
  /\ [](jsonReport # << >> =>
         jsonReport[1].topResources = TopSlice(SortDesc(resources)))

C24_Witness ==
  /\ prog = "perf"
  /\ jsonReport # << >>
  /\ Len(resources) = 3
  /\ resources[1].transferSize < resources[2].transferSize
  /\ topResources[1] = resources[2]
  /\ topResources[3] = resources[1]

\* the sum of f over the keys in S
RECURSIVE SumOver(_, _)
SumOver(f, S) ==
  IF S = {} THEN 0
  ELSE LET k == CHOOSE x \in S : TRUE IN f[k] + SumOver(f, S \ {k})

BucketCounts(stats) == SumOver([k \in DOMAIN stats |-> stats[k].count],
                               DOMAIN stats)

BucketSizes(stats) == SumOver([k \in DOMAIN stats |-> stats[k].size],
                              DOMAIN stats)

\* resources.reduce((sum, r) => sum + r.transferSize, 0)
RECURSIVE TotalTransfer(_)
TotalTransfer(rl) ==
  IF rl = << >> THEN 0 ELSE Head(rl).transferSize + TotalTransfer(Tail(rl))

Grouped == prog = "perf" /\ pc \in {"writeText", "writeJson", "finally"}

\* C25: after grouping, the counts of the buckets of each grouping add up
\* to the number of resources or requests and their sizes to the total
\* transfer size: per initiator type and per protocol in perf-test.mjs, per
\* resource type and per domain in the detailed analysis.
C25_EveryRequestInOneBucket ==
  /\ Grouped =>
       /\ BucketCounts(byType) = Len(resources)
       /\ BucketSizes(byType) = TotalTransfer(resources)
       /\ BucketCounts(protocolStats) = Len(resources)
       /\ BucketSizes(protocolStats) = TotalTransfer(resources)
  /\ netpc = "done" =>
       /\ BucketCounts(networkStats[1].requestsByType)
            = networkStats[1].totalRequests
       /\ BucketSizes(networkStats[1].requestsByType)
            = networkStats[1].totalTransferSize
       /\ BucketCounts(networkStats[1].requestsByDomain)
            = networkStats[1].totalRequests
       /\ BucketSizes(networkStats[1].requestsByDomain)
            = networkStats[1].totalTransferSize

ShPrinted(msg) == \E i \in DOMAIN shLog : shLog[i] = msg

\* C26: when the node test process exits non-zero the script prints
\* "Performance test failed" and exits with 1, having generated and copied
\* nothing; "Performance test completed" is printed, and the report steps are
\* reached, only when the test process exited 0.
C26_FailedTestStopsScript ==
  /\ (shpc = "exited" /\ nodeExit \notin {-1, 0}) =>
       /\ shExit = 1
       /\ ShPrinted("Performance test failed")
       /\ ~moved /\ ~copied
  /\ ShPrinted("Performance test completed") => nodeExit = 0
  /\ shpc \in {"generate", "move", "copy", "summary"} => nodeExit = 0

\* C27: on every path that ends a run after the browser was launched,
\* browser.close was invoked before the process exited, whether or not the
\* close itself succeeded.
C27_BrowserClosedBeforeExit ==
  (Exited /\ browser # "none") => browser \in {"closed", "closeFailed"}

\* the blank reset of the current step succeeded and no navigation of the
\* step's action has been issued yet
StillBlank ==
  /\ prog = "full" /\ optsReload /\ blankRes = "ok"
  /\ \A i \in DOMAIN strat : strat[i].name # "fb"

\* C28: in full_scenario_perf, in a step run with reload true whose blank
\* reset succeeded, the action function starts with the page at about:blank
\* and the page stays there while the step's click and type-if-exists
\* strategies run, so the strategy executed first finds no element: its
\* result is false.
C28_FirstStrategyFindsNothing ==
  (StillBlank /\ step > 1 /\ InLog("invoke")) =>
    /\ loc = "blank"
    /\ \A i \in DOMAIN strat : strat[i].res \in {"pending", "notfound"}

\* the sign_in step's clickByText has returned false on about:blank
C28_Witness ==
  /\ StillBlank /\ step = 2 /\ InLog("invoke")
  /\ Len(strat) = 1 /\ strat[1].res = "notfound"

ActionRequests == {"pages_navigate", "input_type", "input_click"}

\* request m was sent, and answered, before position i of the step's log
RespondedBefore(m, i) ==
  \E j \in DOMAIN log : j + 1 < i /\ log[j] = m /\ log[j + 1] = "response"

\* C29: in every step of the MCP scenario an action request (pages_navigate,
\* input_type, input_click) is sent after the step's performance_start_trace
\* was answered and before performance_stop_trace is sent, and
\* performance_get_metrics is sent only after performance_stop_trace was
\* answered.
C29_ActionInsideTrace ==
  prog = "mcp" =>
    \A i \in DOMAIN log :
      /\ log[i] \in ActionRequests =>
           /\ RespondedBefore("performance_start_trace", i)
           /\ \A j \in 1..(i - 1) : log[j] # "performance_stop_trace"
      /\ log[i] = "performance_get_metrics" =>
           RespondedBefore("performance_stop_trace", i)

GotoRejected == prog = "perf" /\ InLog("gotoRejected")

\* what a run of perf-test.mjs does after page.goto, in order
AfterGoto == << "metrics", "text", "json" >>

\* C30: in perf-test.mjs a rejected page.goto does not send the run down the
\* error path: the run waits the stabilisation delay, collects the metrics,
\* writes the text and the JSON report and closes page and browser, unless
\* one of those later operations fails itself; and each report says
\* navigationFailed true exactly when page.goto rejected.
C30_RejectedGotoStillReports ==
  /\ [](GotoRejected => thrown \in {"none", "evaluate", "writeText",
                                    "writeJson", "pageClose", "close"})
  /\ []((GotoRejected /\ Exited /\ thrown = "none") =>
         /\ exitCode = 0
         /\ log = << "gotoRejected" >> \o AfterGoto
         /\ page = "closed" /\ browser = "closed")
  /\ []((prog = "perf" /\ InLog("metrics")) => timer = 0)
  /\ [][(PerfAt("goto") /\ InLog("gotoRejected")')
          => (pc' = "settle" /\ timer' = STABILISE_MS)]_vars
  /\ [](textReport # << >> =>
         textReport[1].navigationFailed = BoolText(GotoRejected))
  /\ [](jsonReport # << >> =>
         jsonReport[1].navigationFailed = GotoRejected)

\* a run whose navigation was rejected has ended normally with both reports
C30_Witness ==
  /\ GotoRejected /\ Exited /\ exitCode = 0
  /\ textReport = << [navigationFailed |-> "true"] >>
  /\ jsonReport # << >> /\ jsonReport[1].navigationFailed
  /\ page = "closed" /\ browser = "closed"

====
